---------------------------- MODULE Spec2Model ----------------------------
(***************************************************************************)
(* A model of the pseudo-link table and its maintenance gate               *)
(* (fs/aufs/plink.c) and of the entry-creation transactions                *)
(* (fs/aufs/i_op_add.c) of aufs.                                           *)
(*                                                                         *)
(* Spec      : the maintenance mode. Tasks concurrently run                *)
(*             au_plink_maint_enter(), au_plink_maint_leave(),             *)
(*             au_plink_clean() and si_read_lock() with AuLock_NOPLM or    *)
(*             AuLock_NOPLMW, which runs au_plink_maint().                 *)
(* SpecPlink : the table. Tasks concurrently run au_plink_append() under   *)
(*             the read lock of the superblock, and au_plink_clean().      *)
(* SpecLive  : Spec under a fair scheduler, for the tasks that wait.       *)
(* SpecAdd   : one creation call (add_simple(), aufs_mkdir() or            *)
(*             aufs_tmpfile()) with every step of it free to fail.         *)
(* SpecLocks : the dinfo locks of creation calls that run concurrently on  *)
(*             the dentries of a tree.                                     *)
(***************************************************************************)
EXTENDS Integers, Sequences, FiniteSets, TLC

(***************************************************************************)
(* Bounds.                                                                 *)
(***************************************************************************)
\* tasks calling into the filesystem
NTasks == 2
\* inode numbers 1..MaxIno
MaxIno == 2
\* the number of buckets of si_plink[]: the constant of the program is
\* defined outside the files modelled here, the model takes a small one
AuPlink_NHASH == 2
\* branches 0..NBranch-1, 0 is the topmost
NBranch == 2
\* dentries 0..NDentry-1, 0 is the root
NDentry == 4

(***************************************************************************)
(* Tasks. pid 0 is the idle task, whose real_parent is itself, pid 1 is    *)
(* init; the tasks of the model have the pids 2..NTasks+1.  The task with  *)
(* pid 3 was spawned by the task with pid 2, the others by init.           *)
(***************************************************************************)
Tasks == 2..(NTasks + 1)
Inodes == 1..MaxIno
Branches == 0..(NBranch - 1)
Buckets == 0..(AuPlink_NHASH - 1)
NoTask == -1

real_parent(p) == IF p = 3 THEN 2 ELSE IF p >= 2 THEN 1 ELSE 0

VARIABLES
  si_plink_maint_pid,  \* owner of the maintenance mode, 0 when free
  si_rwsem,            \* [w |-> writer or 0, r |-> set of readers]
  si_plink,            \* [Buckets -> Seq(Inodes)], head first
  i_count,             \* [Inodes -> Nat] references taken by au_igrab
  plinkdir,            \* [Inodes -> {"none","self","other"}] link farm
  si_plink_wq,         \* tasks sleeping in wait_event(si_plink_wq)
  nlink_made,          \* [Inodes -> Nat] vfsub_link calls that succeeded
                       \* in the link farm (history)
  maint_entered,       \* tasks whose au_plink_maint_enter succeeded since
                       \* si_plink_maint_pid was last cleared (history)
  ap_group,            \* [Inodes -> record] the calls of au_plink_append
                       \* in progress for an inode (history)
  th                   \* [Tasks -> record] position and locals of a task

VARIABLES
  tx,        \* the locals of the creation call, and where it is
  d,         \* the dentry: d_unhashed(), d_inode, au_dinfo
  h_obj,     \* [Branches -> {"none","file","dir"}] the name in a branch
  h_wh,      \* [Branches -> BOOLEAN] the whiteout of the name in a branch
  h_opq,     \* [Branches -> BOOLEAN] the opaque marker in the new directory
  h_mtime,   \* [Branches -> {"old","new"}] the times of the parent directory
  held,      \* the locks and pins the call holds, in the order taken
  lk,        \* how often each lock was taken and released (history)
  pre        \* the branches as they were when the call began (history)

VARIABLES
  di_rwsem,  \* [Dentries -> task or 0] the writer of the dinfo of a dentry
  cr         \* [Tasks -> record] the creation call of a task, and where
             \* it is

cvars == <<di_rwsem, cr>>

avars == <<tx, d, h_obj, h_wh, h_opq, h_mtime, held, lk, pre, cvars>>

pvars == <<si_plink_maint_pid, si_rwsem, si_plink, i_count, plinkdir,
           si_plink_wq, nlink_made, maint_entered, ap_group, th>>


(***************************************************************************)
(* Helpers on the table.                                                   *)
(***************************************************************************)
\* au_plink_hash(): the bucket of an inode number
au_plink_hash(ino) == ino % AuPlink_NHASH

\* a scan that never finds the inode
NeverInList(list, ino) == FALSE

\* hlist_bl_for_each_entry(...) if (&icntnr->vfs_inode == inode): the scan
\* of one bucket for an inode
InList(list, ino) == \E k \in 1..Len(list) : list[k] = ino

\* au_hbl_count(): the number of nodes of a list that are the inode
RECURSIVE Occurrences(_, _)
Occurrences(list, ino) ==
  IF list = <<>> THEN 0
  ELSE (IF Head(list) = ino THEN 1 ELSE 0) + Occurrences(Tail(list), ino)

\* a removal that leaves the list as it is
hbl_keep(list, ino) == list

\* au_hbl_del(): unlink the node of the inode from a list
RECURSIVE hbl_del(_, _)
hbl_del(list, ino) ==
  IF list = <<>> THEN <<>>
  ELSE IF Head(list) = ino THEN Tail(list)
  ELSE <<Head(list)>> \o hbl_del(Tail(list), ino)

\* number of table entries of an inode, over all the buckets
RECURSIVE EntriesUpTo(_, _)
EntriesUpTo(b, ino) ==
  IF b < 0 THEN 0
  ELSE Occurrences(si_plink[b], ino) + EntriesUpTo(b - 1, ino)
Entries(ino) == EntriesUpTo(AuPlink_NHASH - 1, ino)

(***************************************************************************)
(* au_plink_maint(), lines 51-66: the walk up the real_parent chain; TRUE  *)
(* when the owner pid is the pid of an ancestor of the task.               *)
(***************************************************************************)
\* a walk that finds no ancestor
NoParentWalk(parent, prev, pid) == FALSE

RECURSIVE ParentWalk(_, _, _)
ParentWalk(parent, prev, pid) ==
  LET p == real_parent(parent)
  IN  IF p = prev THEN FALSE
      ELSE IF pid = p THEN TRUE
      ELSE ParentWalk(p, p, pid)

\* lines 55-65: the number of rounds of the loop when no pid matches
RECURSIVE WalkSteps(_, _)
WalkSteps(parent, prev) ==
  LET p == real_parent(parent)
  IN  IF p = prev THEN 1 ELSE 1 + WalkSteps(p, p)

\* au_plink_maint(), lines 46-66: the gate counts as not held for the task
MaintFree(pid, current) ==
  \/ pid = 0
  \/ pid = current
  \/ ParentWalk(current, NoTask, pid)

(***************************************************************************)
(* The record of a task: where it is, and its locals.                      *)
(***************************************************************************)
IdleRec ==
  [pc |-> "idle", op |-> "none", ino |-> 0, err |-> "ok", ret |-> "none",
   bi |-> 0, verbose |-> FALSE, warned |-> FALSE, nwarn |-> 0,
   cnt0 |-> [i \in Inodes |-> 0], ref0 |-> [i \in Inodes |-> 0],
   failed |-> FALSE, waited |-> FALSE, flags |-> "none", prev |-> 0,
   ent0 |-> "unset", lkups |-> 0, unl |-> 0]

Set(t, rec) == th' = [th EXCEPT ![t] = rec]

NoGroup == [n |-> 0, ins |-> 0, failed |-> FALSE, had |-> FALSE]

\* a write lock that does not wait for the readers
RwNoWriter == si_rwsem.w = 0

\* si_write_lock(): si_rwsem has no writer and no reader
RwFree == si_rwsem.w = 0 /\ si_rwsem.r = {}

PInit ==
  /\ si_plink_maint_pid = 0
  /\ si_rwsem = [w |-> 0, r |-> {}]
  /\ si_plink = [b \in Buckets |-> <<>>]
  /\ i_count = [i \in Inodes |-> 0]
  /\ \E e \in {"none", "self", "other"} : plinkdir = [i \in Inodes |-> e]
  /\ si_plink_wq = {}
  /\ nlink_made = [i \in Inodes |-> 0]
  /\ maint_entered = {}
  /\ ap_group = [i \in Inodes |-> NoGroup]
  /\ th = [t \in Tasks |-> IdleRec]

(***************************************************************************)
(* au_plink_maint_enter(), lines 97-117.                                   *)
(***************************************************************************)
\* si_write_lock(sb, AuLock_FLUSH): "make sure i am the only one in this fs"
EnterLock(t) ==
  /\ UNCHANGED avars
  /\ th[t].pc = "idle"
  /\ RwFree
  /\ si_rwsem' = [si_rwsem EXCEPT !.w = t]
  /\ Set(t, [IdleRec EXCEPT !.pc = "en_cs", !.op = "enter",
                            !.prev = th[t].prev])
  /\ UNCHANGED <<si_plink_maint_pid, si_plink, i_count, plinkdir,
                 si_plink_wq, nlink_made, maint_entered, ap_group>>

\* an enter that does not look at the owner
EnterAlwaysOwns(pid) == TRUE

\* line 108: if (!sbinfo->si_plink_maint_pid)
EnterMayOwn(pid) == pid = 0

\* lines 107-112, under si_plink_maint_lock
EnterCS(t) ==
  /\ UNCHANGED avars
  /\ th[t].pc = "en_cs"
  /\ IF EnterMayOwn(si_plink_maint_pid)
     THEN /\ si_plink_maint_pid' = t
          /\ maint_entered' = maint_entered \cup {t}
          /\ Set(t, [th[t] EXCEPT !.pc = "en_unlock", !.err = "ok"])
     ELSE /\ UNCHANGED <<si_plink_maint_pid, maint_entered>>
          /\ Set(t, [th[t] EXCEPT !.pc = "en_unlock", !.err = "EBUSY"])
  /\ UNCHANGED <<si_rwsem, si_plink, i_count, plinkdir, si_plink_wq,
                 nlink_made, ap_group>>

\* lines 114-116: si_write_unlock(sb); return err
EnterUnlock(t) ==
  /\ UNCHANGED avars
  /\ th[t].pc = "en_unlock"
  /\ si_rwsem' = [si_rwsem EXCEPT !.w = 0]
  /\ Set(t, IdleRec)
  /\ UNCHANGED <<si_plink_maint_pid, si_plink, i_count, plinkdir,
                 si_plink_wq, nlink_made, maint_entered, ap_group>>

(***************************************************************************)
(* au_plink_maint_leave(), lines 89-95.                                    *)
(***************************************************************************)
\* a leave that releases the hold of the caller only
LeaveIfOwner(pid, current) == IF pid = current THEN 0 ELSE pid

\* line 92: si_plink_maint_pid = 0, whoever the caller is
LeavePid(pid, current) == 0

\* lines 91-93, under si_plink_maint_lock; prev keeps the owner it found,
\* until the task has begun and ended its next call
LeaveCS(t) ==
  /\ UNCHANGED avars
  /\ th[t].pc = "idle"
  /\ si_plink_maint_pid' = LeavePid(si_plink_maint_pid, t)
  /\ maint_entered' = IF si_plink_maint_pid' = 0 THEN {} ELSE maint_entered
  /\ Set(t, [IdleRec EXCEPT !.pc = "lv_wake", !.op = "leave",
                            !.prev = si_plink_maint_pid])
  /\ UNCHANGED <<si_rwsem, si_plink, i_count, plinkdir, si_plink_wq,
                 nlink_made, ap_group>>

\* a leave that wakes nobody
wake_up_none(wq) == wq

\* wake_up_all(): the sleepers that stay on the queue
wake_up_all(wq) == {}

\* line 94: wake_up_all(&sbinfo->si_plink_wq)
LeaveWake(t) ==
  /\ UNCHANGED avars
  /\ th[t].pc = "lv_wake"
  /\ si_plink_wq' = wake_up_all(si_plink_wq)
  /\ Set(t, [IdleRec EXCEPT !.prev = th[t].prev])
  /\ UNCHANGED <<si_plink_maint_pid, si_rwsem, si_plink, i_count, plinkdir,
                 nlink_made, maint_entered, ap_group>>

(***************************************************************************)
(* au_plink_maint(), lines 32-87, as si_read_lock(sb, flags) runs it with  *)
(* AuLock_NOPLM or AuLock_NOPLMW once it holds si_rwsem for reading        *)
(* (aufs_tmpfile(), line 372, is such a call).                             *)
(***************************************************************************)
\* an au_plink_maint() that waits whatever the flags are
MaintAlwaysWaits(pid, current, flags) ==
  IF MaintFree(pid, current) THEN "body" ELSE "mt_loop"

\* lines 45-68 and 80-83: where the task goes after it compared the owner
\* with itself and its ancestors
MaintNext(pid, current, flags) ==
  IF MaintFree(pid, current) THEN "body"
  ELSE IF flags = "NOPLMW" THEN "mt_loop"
  ELSE "rl_fail"

\* si_noflush_read_lock(sb), then lines 45-68 and 80-83
ReadLock(t) ==
  /\ UNCHANGED avars
  /\ th[t].pc = "idle"
  /\ si_rwsem.w = 0
  /\ si_rwsem' = [si_rwsem EXCEPT !.r = @ \cup {t}]
  /\ \E fl \in {"NOPLM", "NOPLMW"} :
       LET next == MaintNext(si_plink_maint_pid, t, fl)
       IN  Set(t, [IdleRec EXCEPT !.pc = next, !.op = "rlock", !.flags = fl,
                     !.err = IF next = "rl_fail" THEN "EAGAIN" ELSE "ok"])
  /\ UNCHANGED <<si_plink_maint_pid, si_plink, i_count, plinkdir,
                 si_plink_wq, nlink_made, maint_entered, ap_group>>

\* a task that keeps si_rwsem
si_read_keep(rw, t) == rw

\* si_read_unlock(sb): the task is no reader of si_rwsem any more
si_read_unlock(rw, t) == [rw EXCEPT !.r = @ \ {t}]

\* si_read_lock(): au_plink_maint() failed, si_read_unlock(sb); return err
ReadLockFail(t) ==
  /\ UNCHANGED avars
  /\ th[t].pc = "rl_fail"
  /\ si_rwsem' = si_read_unlock(si_rwsem, t)
  /\ Set(t, IdleRec)
  /\ UNCHANGED <<si_plink_maint_pid, si_plink, i_count, plinkdir,
                 si_plink_wq, nlink_made, maint_entered, ap_group>>

\* si_read_unlock(sb) of the caller, once the pseudo-link operation is over
ReadUnlock(t) ==
  /\ UNCHANGED avars
  /\ th[t].pc = "body"
  /\ si_rwsem' = si_read_unlock(si_rwsem, t)
  /\ Set(t, IdleRec)
  /\ UNCHANGED <<si_plink_maint_pid, si_plink, i_count, plinkdir,
                 si_plink_wq, nlink_made, maint_entered, ap_group>>

\* line 71: while (sbi->si_plink_maint_pid)
MaintLoop(t) ==
  /\ UNCHANGED avars
  /\ th[t].pc = "mt_loop"
  /\ IF si_plink_maint_pid # 0
     THEN Set(t, [th[t] EXCEPT !.pc = "mt_unlock"])
     ELSE Set(t, [th[t] EXCEPT !.pc = "body"])
  /\ UNCHANGED <<si_plink_maint_pid, si_rwsem, si_plink, i_count, plinkdir,
                 si_plink_wq, nlink_made, maint_entered, ap_group>>

\* line 72: si_read_unlock(sb)
MaintUnlock(t) ==
  /\ UNCHANGED avars
  /\ th[t].pc = "mt_unlock"
  /\ si_rwsem' = si_read_unlock(si_rwsem, t)
  /\ Set(t, [th[t] EXCEPT !.pc = "mt_wait"])
  /\ UNCHANGED <<si_plink_maint_pid, si_plink, i_count, plinkdir,
                 si_plink_wq, nlink_made, maint_entered, ap_group>>

\* line 74: wait_event(sbi->si_plink_wq, !sbi->si_plink_maint_pid): test the
\* condition, sleep on the queue while it is false
MaintWait(t) ==
  /\ UNCHANGED avars
  /\ th[t].pc = "mt_wait"
  /\ IF si_plink_maint_pid = 0
     THEN /\ si_plink_wq' = si_plink_wq \ {t}
          /\ Set(t, [th[t] EXCEPT !.pc = "mt_relock"])
     ELSE /\ si_plink_wq' = si_plink_wq \cup {t}
          /\ Set(t, [th[t] EXCEPT !.pc = "mt_sleep", !.waited = TRUE])
  /\ UNCHANGED <<si_plink_maint_pid, si_rwsem, si_plink, i_count, plinkdir,
                 nlink_made, maint_entered, ap_group>>

\* line 74: a sleeper that wake_up_all() took off the queue tests again
MaintWoken(t) ==
  /\ UNCHANGED avars
  /\ th[t].pc = "mt_sleep"
  /\ t \notin si_plink_wq
  /\ Set(t, [th[t] EXCEPT !.pc = "mt_wait"])
  /\ UNCHANGED <<si_plink_maint_pid, si_rwsem, si_plink, i_count, plinkdir,
                 si_plink_wq, nlink_made, maint_entered, ap_group>>

\* line 78: si_noflush_read_lock(sb)
MaintRelock(t) ==
  /\ UNCHANGED avars
  /\ th[t].pc = "mt_relock"
  /\ si_rwsem.w = 0
  /\ si_rwsem' = [si_rwsem EXCEPT !.r = @ \cup {t}]
  /\ Set(t, [th[t] EXCEPT !.pc = "mt_loop"])
  /\ UNCHANGED <<si_plink_maint_pid, si_plink, i_count, plinkdir,
                 si_plink_wq, nlink_made, maint_entered, ap_group>>

(***************************************************************************)
(* au_plink_append(), lines 352-401.                                       *)
(***************************************************************************)
\* au_igrab(), line 373: a reference to the inode is taken
au_igrab(count, ino) == [count EXCEPT ![ino] = @ + 1]

\* a call that forgets the reference it took
iput_leak(count, ino) == count

\* iput(), lines 397 and 400: a reference to the inode is released
iput(count, ino) == [count EXCEPT ![ino] = @ - 1]

\* au_plink_test(), lines 147-171: the scan of the bucket of the inode
au_plink_test(ino) == InList(si_plink[au_plink_hash(ino)], ino)

\* inside do_whplink(), with the lock of the link farm
WpPcs == {"wp_unlink", "wp_link"}

ApPcs == {"ap_insert", "ap_whplink", "ap_del", "ap_ret"} \cup WpPcs

\* the tasks that are inside au_plink_append() for the inode
InAppend(ino) ==
  {u \in Tasks : th[u].ino = ino /\ th[u].pc \in ApPcs}

Sat(n) == IF n < 2 THEN n + 1 ELSE 2

\* history: a call of au_plink_append() for the inode begins. The calls
\* that overlap in time form a group; a call that finds no other call in
\* progress starts a new group.
GroupJoin(ino) ==
  IF InAppend(ino) = {}
  THEN [ap_group EXCEPT ![ino] =
          [n |-> 1, ins |-> 0, failed |-> FALSE, had |-> Entries(ino) > 0]]
  ELSE [ap_group EXCEPT ![ino].n = Sat(@)]

\* history: whplink() of a call of the group failed
GroupFail(ino) == [ap_group EXCEPT ![ino].failed = TRUE]

\* the caller's si_read_lock(), which au_plink_maint() lets pass, then
\* lines 367-373: found = au_plink_test(inode); if (found) return;
\* au_igrab(inode)
AppendTest(t) ==
  /\ UNCHANGED avars
  /\ th[t].pc = "idle"
  /\ si_rwsem.w = 0
  /\ MaintFree(si_plink_maint_pid, t)
  /\ si_rwsem' = [si_rwsem EXCEPT !.r = @ \cup {t}]
  /\ \E ino \in Inodes :
       /\ ap_group' = GroupJoin(ino)
       /\ IF au_plink_test(ino)
          THEN /\ Set(t, [th[t] EXCEPT !.pc = "ap_ret", !.op = "append",
                                       !.ino = ino])
               /\ UNCHANGED i_count
          ELSE /\ Set(t, [th[t] EXCEPT !.pc = "ap_insert", !.op = "append",
                                       !.ino = ino])
               /\ i_count' = au_igrab(i_count, ino)
  /\ UNCHANGED <<si_plink_maint_pid, si_plink, plinkdir,
                 si_plink_wq, nlink_made, maint_entered>>

\* an insertion that does not scan the bucket again under its lock
AppendNeverFound(list, ino) == FALSE

\* lines 376-381: the scan of the bucket made under hlist_bl_lock(hbl)
AppendFound(list, ino) == InList(list, ino)

\* lines 375-386 and 399-400, under the bucket lock: scan, and add at the
\* head when the inode is not there; iput() when it is
AppendInsert(t) ==
  /\ UNCHANGED avars
  /\ th[t].pc = "ap_insert"
  /\ LET ino == th[t].ino
         b == au_plink_hash(ino)
     IN  IF AppendFound(si_plink[b], ino)
         THEN /\ UNCHANGED <<si_plink, ap_group>>
              /\ i_count' = iput(i_count, ino)
              /\ Set(t, [th[t] EXCEPT !.pc = "ap_ret"])
         ELSE /\ si_plink' = [si_plink EXCEPT ![b] = <<ino>> \o @]
              /\ ap_group' = [ap_group EXCEPT ![ino].ins = Sat(@)]
              /\ UNCHANGED i_count
              /\ Set(t, [th[t] EXCEPT !.pc = "ap_whplink"])
  /\ UNCHANGED <<si_plink_maint_pid, si_rwsem, plinkdir,
                 si_plink_wq, nlink_made, maint_entered>>

(***************************************************************************)
(* whplink(), lines 317-346, and do_whplink(), lines 253-301.  The lock of *)
(* the link farm, from inode_lock_nested(h_dir) at line 263 to             *)
(* inode_unlock(h_dir) at line 299, is held by the task that is inside;    *)
(* plinkdir[ino] is what the link farm holds under the name of the inode.  *)
(* ent0, lkups and unl are history: the entry the call found first, and    *)
(* its lookups and unlinks; they last until au_plink_append() returns.     *)
(***************************************************************************)
\* do_whplink() returned err: inode_unlock(h_dir), and au_plink_append(),
\* lines 392-394: if (unlikely(err))
WhOut(rec, ok) ==
  IF ok THEN [rec EXCEPT !.pc = "ap_ret"]
  ELSE [rec EXCEPT !.pc = "ap_del", !.ent0 = "unset", !.lkups = 0,
                   !.unl = 0]

\* a test that takes every entry for a foreign one
WhAnyPositive(entry) == entry # "none"

\* lines 272-273: d_is_positive(h_path.dentry)
\* && d_inode(h_path.dentry) != d_inode(h_dentry)
WhOther(entry) == entry = "other"

\* again, lines 265-273 and 286: vfsub_lkup_one(tgt, h_parent) fails, or
\* finds the entry, which tells what is done next
WhAgain(rec, entry) ==
  LET r == [rec EXCEPT !.lkups = @ + 1]
  IN  {WhOut(r, FALSE),
       IF WhOther(entry) THEN [r EXCEPT !.pc = "wp_unlink"]
       ELSE IF entry = "none" THEN [r EXCEPT !.pc = "wp_link"]
       ELSE WhOut(r, TRUE)}

\* history: whplink() of the call failed, when it did
WhGroup(rec) ==
  IF rec.pc = "ap_del" THEN GroupFail(rec.ino) ELSE ap_group

\* whplink(), lines 317-346: do_whplink() runs in the task when it is root,
\* else on the workqueue, and au_wkq_wait() can fail before it runs; then
\* line 263, inode_lock_nested(h_dir, AuLsc_I_CHILD2), and the first
\* lookup
WhplinkLock(t) ==
  /\ UNCHANGED avars
  /\ th[t].pc = "ap_whplink"
  /\ \/ /\ \A u \in Tasks : th[u].pc \notin WpPcs
        /\ LET entry == plinkdir[th[t].ino]
           IN  \E rec \in WhAgain([th[t] EXCEPT !.ent0 = entry], entry) :
                 /\ Set(t, rec)
                 /\ ap_group' = WhGroup(rec)
     \/ /\ Set(t, WhOut(th[t], FALSE))
        /\ ap_group' = GroupFail(th[t].ino)
  /\ UNCHANGED <<si_plink_maint_pid, si_rwsem, si_plink, i_count,
                 si_plink_wq, maint_entered, plinkdir, nlink_made>>

\* lines 274-284: vfsub_unlink() of the foreign entry, and goto again when
\* it succeeded
WhUnlink(t) ==
  /\ UNCHANGED avars
  /\ th[t].pc = "wp_unlink"
  /\ \/ /\ plinkdir' = [plinkdir EXCEPT ![th[t].ino] = "none"]
        /\ \E rec \in WhAgain([th[t] EXCEPT !.unl = @ + 1],
                               plinkdir'[th[t].ino]) :
             /\ Set(t, rec)
             /\ ap_group' = WhGroup(rec)
     \/ /\ UNCHANGED plinkdir
        /\ Set(t, WhOut(th[t], FALSE))
        /\ ap_group' = GroupFail(th[t].ino)
  /\ UNCHANGED <<si_plink_maint_pid, si_rwsem, si_plink, i_count,
                 si_plink_wq, maint_entered, nlink_made>>

\* lines 286-295: vfsub_link() under the name that is free
WhLink(t) ==
  /\ UNCHANGED avars
  /\ th[t].pc = "wp_link"
  /\ \/ /\ plinkdir' = [plinkdir EXCEPT ![th[t].ino] = "self"]
        /\ nlink_made' = [nlink_made EXCEPT ![th[t].ino] = Sat(@)]
        /\ Set(t, WhOut(th[t], TRUE))
        /\ UNCHANGED ap_group
     \/ /\ UNCHANGED <<plinkdir, nlink_made>>
        /\ Set(t, WhOut(th[t], FALSE))
        /\ ap_group' = GroupFail(th[t].ino)
  /\ UNCHANGED <<si_plink_maint_pid, si_rwsem, si_plink, i_count,
                 si_plink_wq, maint_entered>>

\* lines 394-398: pr_warn("damaged pseudo link"); au_hbl_del(); iput()
AppendDel(t) ==
  /\ UNCHANGED avars
  /\ th[t].pc = "ap_del"
  /\ LET b == au_plink_hash(th[t].ino)
     IN  si_plink' = [si_plink EXCEPT ![b] = hbl_del(@, th[t].ino)]
  /\ i_count' = iput(i_count, th[t].ino)
  /\ Set(t, [th[t] EXCEPT !.pc = "ap_ret", !.failed = TRUE])
  /\ UNCHANGED <<si_plink_maint_pid, si_rwsem, plinkdir,
                 si_plink_wq, nlink_made, maint_entered, ap_group>>

\* the return of au_plink_append(), which is void, and the si_read_unlock()
\* of its caller; the history of a group ends with its last call
AppendReturn(t) ==
  /\ UNCHANGED avars
  /\ th[t].pc = "ap_ret"
  /\ Set(t, IdleRec)
  /\ si_rwsem' = [si_rwsem EXCEPT !.r = @ \ {t}]
  /\ ap_group' = IF InAppend(th[t].ino) = {t}
                 THEN [ap_group EXCEPT ![th[t].ino] = NoGroup]
                 ELSE ap_group
  /\ UNCHANGED <<si_plink_maint_pid, si_plink, i_count, plinkdir,
                 si_plink_wq, nlink_made, maint_entered>>

(***************************************************************************)
(* au_plink_clean(), lines 432-438, and au_plink_put(), lines 404-430.     *)
(***************************************************************************)
\* line 434: si_write_lock(sb, AuLock_FLUSH | AuLock_NOPLMW): the exclusive
\* lock of the filesystem, taken once no other owner is in the maintenance
\* mode
CleanLock(t) ==
  /\ UNCHANGED avars
  /\ th[t].pc = "idle"
  /\ RwFree
  /\ MaintFree(si_plink_maint_pid, t)
  /\ si_rwsem' = [si_rwsem EXCEPT !.w = t]
  /\ \E v \in BOOLEAN :
       Set(t, [IdleRec EXCEPT !.pc = "put", !.op = "clean", !.verbose = v,
                              !.cnt0 = [i \in Inodes |-> Entries(i)],
                              !.ref0 = i_count])
  /\ UNCHANGED <<si_plink_maint_pid, si_plink, i_count, plinkdir,
                 si_plink_wq, nlink_made, maint_entered, ap_group>>

\* a warning for every bucket that is not empty
PutWarnEach(warned, verbose, list) == verbose /\ list # <<>>

\* line 422: the warning is due for this bucket
PutWarn(warned, verbose, list) == ~warned /\ verbose /\ list # <<>>

\* lines 426-427: iput() of every entry of the bucket
PutRelease(count, list) ==
  [i \in Inodes |-> count[i] - Occurrences(list, i)]

\* lines 420-429: one round of the loop over the buckets
PlinkPut(t) ==
  /\ UNCHANGED avars
  /\ th[t].pc = "put"
  /\ LET b == th[t].bi
         w == PutWarn(th[t].warned, th[t].verbose, si_plink[b])
     IN  /\ i_count' = PutRelease(i_count, si_plink[b])
         /\ si_plink' = [si_plink EXCEPT ![b] = <<>>]
         /\ Set(t, [th[t] EXCEPT
                      !.warned = @ \/ w,
                      !.nwarn = IF w THEN @ + 1 ELSE @,
                      !.bi = b + 1,
                      !.pc = IF b + 1 < AuPlink_NHASH THEN "put"
                             ELSE "cl_unlock"])
  /\ UNCHANGED <<si_plink_maint_pid, si_rwsem, plinkdir,
                 si_plink_wq, nlink_made, maint_entered, ap_group>>

\* line 437: si_write_unlock(sb)
CleanUnlock(t) ==
  /\ UNCHANGED avars
  /\ th[t].pc = "cl_unlock"
  /\ si_rwsem' = [si_rwsem EXCEPT !.w = 0]
  /\ Set(t, IdleRec)
  /\ UNCHANGED <<si_plink_maint_pid, si_plink, i_count, plinkdir,
                 si_plink_wq, nlink_made, maint_entered, ap_group>>

(***************************************************************************)
(* The tasks run concurrently: the calls on the maintenance mode, and the  *)
(* calls on the table made by tasks that hold si_rwsem.                    *)
(***************************************************************************)
GateNext ==
  \E t \in Tasks :
    \/ EnterLock(t) \/ EnterCS(t) \/ EnterUnlock(t)
    \/ LeaveCS(t) \/ LeaveWake(t)
    \/ ReadLock(t) \/ ReadLockFail(t) \/ ReadUnlock(t)
    \/ MaintLoop(t) \/ MaintUnlock(t) \/ MaintWait(t)
    \/ MaintWoken(t) \/ MaintRelock(t)
    \/ CleanLock(t) \/ PlinkPut(t) \/ CleanUnlock(t)

PlinkNext ==
  \E t \in Tasks :
    \/ AppendTest(t) \/ AppendInsert(t)
    \/ WhplinkLock(t) \/ WhUnlink(t) \/ WhLink(t)
    \/ AppendDel(t) \/ AppendReturn(t)
    \/ CleanLock(t) \/ PlinkPut(t) \/ CleanUnlock(t)

(***************************************************************************)
(***************************************************************************)
(* The creation calls of fs/aufs/i_op_add.c: add_simple() for              *)
(* aufs_create(), aufs_symlink() and aufs_mknod(), and aufs_mkdir().       *)
(* A step that calls out of the file (the branch's filesystem, the         *)
(* whiteout and inode helpers) either succeeds or fails, and a call that   *)
(* fails leaves the branch as it was.                                      *)
(***************************************************************************)
(***************************************************************************)
Types == {"Creat", "Symlink", "Mknod", "Mkdir"}
NativeErrors == {"ENOSPC", "EIO"}
NoBranch == -1

\* the locks and pins of a creation call: the lock of the directory inode
\* (taken by aufs_tmpfile() itself), si_rwsem, the dinfo lock of the dentry
\* and of its parent, the pin of the branch directory (with the write
\* access to the branch) and the write access aufs_tmpfile() takes
Locks == {"i_mutex", "si", "di_child", "di_parent", "pin", "mnt_write"}
NoLocks == [acq |-> [l \in Locks |-> 0], rel |-> [l \in Locks |-> 0]]

\* the topmost branch where the name has an object among the branches bs
RECURSIVE TopOf(_, _)
TopOf(b, bs) ==
  IF b >= NBranch THEN NoBranch
  ELSE IF b \in bs /\ h_obj[b] # "none" THEN b
  ELSE TopOf(b + 1, bs)

AInit ==
  /\ h_obj \in [Branches -> {"none", "file"}]
  /\ \E w \in Branches \cup {NoBranch}, lower \in SUBSET Branches,
        unhashed \in BOOLEAN, positive \in BOOLEAN :
       /\ positive => \E b \in Branches : h_obj[b] # "none"
       /\ h_wh = [b \in Branches |->
                    b = w \/ (w # NoBranch /\ b > w /\ b \in lower)]
       /\ d = [unhashed |-> unhashed, positive |-> positive,
               di_btop |-> IF positive THEN TopOf(0, Branches) ELSE NoBranch,
               di_bbot |-> IF positive THEN TopOf(0, Branches) ELSE NoBranch,
               di_bwh |-> w,
               hd |-> IF positive THEN {TopOf(0, Branches)} ELSE {}]
  /\ h_opq = [b \in Branches |-> FALSE]
  /\ h_mtime = [b \in Branches |-> "old"]
  /\ held = <<>>
  /\ lk = NoLocks
  /\ pre = [obj |-> h_obj, wh |-> h_wh, positive |-> d.positive,
            bwh |-> d.di_bwh, unhashed |-> d.unhashed]
  /\ \E type \in Types, udba \in {"NONE", "REVAL"}, toolong \in BOOLEAN :
       tx = [pc |-> "kmalloc", type |-> type, udba |-> udba,
             toolong |-> toolong, err |-> "ok", bcpup |-> NoBranch,
             btop |-> NoBranch, wh_dentry |-> "NULL", bwh |-> NoBranch,
             created |-> FALSE, diropq |-> FALSE, dt |-> "none",
             rb_failed |-> FALSE, native_err |-> "none", ret |-> "none",
             undo |-> <<>>, ph |-> <<>>, h_ref |-> 0, wh_failed |-> FALSE]

\* the creation call does not run
AParked ==
  /\ h_obj = [b \in Branches |-> "none"]
  /\ h_wh = [b \in Branches |-> FALSE]
  /\ d = [unhashed |-> FALSE, positive |-> FALSE, di_btop |-> NoBranch,
          di_bbot |-> NoBranch, di_bwh |-> NoBranch, hd |-> {}]
  /\ h_opq = [b \in Branches |-> FALSE]
  /\ h_mtime = [b \in Branches |-> "old"]
  /\ held = <<>>
  /\ lk = NoLocks
  /\ pre = [obj |-> h_obj, wh |-> h_wh, positive |-> FALSE,
            bwh |-> NoBranch, unhashed |-> FALSE]
  /\ tx = [pc |-> "none", type |-> "Creat", udba |-> "NONE",
           toolong |-> FALSE, err |-> "ok", bcpup |-> NoBranch,
           btop |-> NoBranch, wh_dentry |-> "NULL", bwh |-> NoBranch,
           created |-> FALSE, diropq |-> FALSE, dt |-> "none",
           rb_failed |-> FALSE, native_err |-> "none", ret |-> "none",
             undo |-> <<>>, ph |-> <<>>, h_ref |-> 0, wh_failed |-> FALSE]

\* the pseudo-link tasks do not run
PParked ==
  /\ PInit
  /\ plinkdir = [i \in Inodes |-> "none"]

\* a lock or a pin is released
Release(locks, l) == SelectSeq(locks, LAMBDA x : x # l)

\* the counts after the locks of the sequence ls were taken, or released
Bump(f, ls) ==
  [l \in Locks |-> f[l] + Cardinality({k \in 1..Len(ls) : ls[k] = l})]

\* locks are taken
Took(ls) ==
  /\ held' = held \o ls
  /\ lk' = [lk EXCEPT !.acq = Bump(@, ls)]

RECURSIVE ReleaseAll(_, _)
ReleaseAll(locks, ls) ==
  IF ls = <<>> THEN locks
  ELSE ReleaseAll(Release(locks, Head(ls)), Tail(ls))

\* locks are released
Dropped(ls) ==
  /\ held' = ReleaseAll(held, ls)
  /\ lk' = [lk EXCEPT !.rel = Bump(@, ls)]

Goto(pc) == tx' = [tx EXCEPT !.pc = pc]
Fail(pc, e) == tx' = [tx EXCEPT !.pc = pc, !.err = e]
IsMkdir == tx.type = "Mkdir"

(***************************************************************************)
(* add_simple(), lines 246-265, and aufs_mkdir(), lines 476-494.           *)
(***************************************************************************)
\* lines 246-249, 476-479: a = kmalloc(sizeof(*a), GFP_NOFS)
Kmalloc ==
  /\ tx.pc = "kmalloc"
  /\ \/ Goto("read_lock")
     \/ Fail("out", "ENOMEM")
  /\ UNCHANGED <<d, h_obj, h_wh, h_opq, h_mtime, held, lk, pre, cvars, pvars>>

\* lines 254-256, 481-483: aufs_read_lock(dentry, AuLock_DW | AuLock_GEN)
AufsReadLock ==
  /\ tx.pc = "read_lock"
  /\ \/ /\ Goto("d_may_add")
        /\ Took(<<"si", "di_child">>)
     \/ /\ Fail("out_free", "ESTALE")
        /\ UNCHANGED <<held, lk>>
  /\ UNCHANGED <<d, h_obj, h_wh, h_opq, h_mtime, pre, cvars, pvars>>

\* a test that lets every dentry pass
d_may_add_always(unhashed, positive) == "ok"

\* au_d_may_add(), lines 73-83
au_d_may_add(unhashed, positive) ==
  IF positive THEN "EEXIST"
  ELSE IF unhashed THEN "ENOENT"
  ELSE "ok"

\* lines 257-259, 484-486
DMayAdd ==
  /\ tx.pc = "d_may_add"
  /\ LET err == au_d_may_add(d.unhashed, d.positive)
     IN  IF err # "ok" THEN Fail("out_unlock", err) ELSE Goto("lock_parent")
  /\ UNCHANGED <<d, h_obj, h_wh, h_opq, h_mtime, held, lk, pre, cvars, pvars>>

\* lines 260, 489: di_write_lock_parent(parent)
LockParent ==
  /\ tx.pc = "lock_parent"
  /\ Took(<<"di_parent">>)
  /\ tx' = [tx EXCEPT !.pc = "wr_dir", !.ph = Append(@, "Locked")]
  /\ UNCHANGED <<d, h_obj, h_wh, h_opq, h_mtime, pre, cvars, pvars>>

(***************************************************************************)
(* lock_hdir_lkup_wh(), lines 141-205.                                     *)
(***************************************************************************)
\* lines 155-159: au_wr_dir() selects the writable branch, and leaves the
\* dentry with its top at that branch and a negative lower dentry there
WrDir ==
  /\ tx.pc = "wr_dir"
  /\ \/ \E b \in Branches :
          /\ tx' = [tx EXCEPT !.pc = "pin", !.bcpup = b,
                              !.ph = Append(@, "BranchResolved")]
          /\ d' = [d EXCEPT !.di_btop = b, !.hd = @ \cup {b},
                            !.di_bbot = IF @ < b THEN b ELSE @]
     \/ /\ Fail("out_parent", "EROFS")
        /\ UNCHANGED d
  /\ UNCHANGED <<h_obj, h_wh, h_opq, h_mtime, held, lk, pre, cvars, pvars>>

\* lines 163-167: au_pin(pin, dentry, bcpup, udba, ...)
Pin ==
  /\ tx.pc = "pin"
  /\ \/ /\ Goto("may_add")
        /\ Took(<<"pin">>)
     \/ /\ Fail("out_parent", "EBUSY")
        /\ UNCHANGED <<held, lk>>
  /\ UNCHANGED <<d, h_obj, h_wh, h_opq, h_mtime, pre, cvars, pvars>>

\* au_may_add(), lines 97-129, for a dentry without inode
au_may_add(toolong, h_positive, h_parent_moved) ==
  IF toolong THEN "ENAMETOOLONG"
  ELSE IF h_positive THEN "EEXIST"
  ELSE IF h_parent_moved THEN "EIO"
  ELSE "ok"

\* lines 170-178: the tests before the creation
MayAddErr(udba, btop, bcpup, toolong, h_positive, h_parent_moved) ==
  IF udba # "NONE" /\ btop = bcpup
  THEN au_may_add(toolong, h_positive, h_parent_moved)
  ELSE IF toolong THEN "ENAMETOOLONG"
  ELSE "ok"

\* a lock_hdir_lkup_wh() that leaves the pin when it fails
UnpinNever(failed) == <<>>

\* lines 200-202: if (IS_ERR(wh_dentry)) au_unpin(pin)
UnpinOnError(failed) == IF failed THEN <<"pin">> ELSE <<>>

\* lines 169-187 and 200-202: the tests, then au_dtime_store()
MayAdd ==
  /\ tx.pc = "may_add"
  /\ \E moved \in BOOLEAN :
       LET err == MayAddErr(tx.udba, d.di_btop, tx.bcpup, tx.toolong,
                            h_obj[tx.bcpup] # "none", moved)
       IN  IF err # "ok"
           THEN /\ Fail("out_parent", err)
                /\ Dropped(UnpinOnError(TRUE))
           ELSE /\ tx' = [tx EXCEPT !.pc = "wh_lkup",
                                    !.dt = h_mtime[tx.bcpup]]
                /\ UNCHANGED <<held, lk>>
  /\ UNCHANGED <<d, h_obj, h_wh, h_opq, h_mtime, pre, cvars, pvars>>

\* a lookup that is left out only for a whiteout below the branch
NeedWhLkupNotBelow(bcpup, bwh) == bwh <= bcpup

\* line 190: the whiteout is looked up in the branch
NeedWhLkup(bcpup, bwh) == bcpup = bwh

\* lines 189-204: wh_dentry = NULL, or the result of au_wh_lkup()
WhLkup ==
  /\ tx.pc = "wh_lkup"
  /\ IF ~NeedWhLkup(tx.bcpup, d.di_bwh)
     THEN /\ tx' = [tx EXCEPT !.pc = "native", !.wh_dentry = "NULL",
                              !.ph = Append(@, "WhiteoutResolved")]
          /\ UNCHANGED <<held, lk>>
     ELSE \/ /\ tx' = [tx EXCEPT !.pc = "native",
                         !.wh_dentry = IF h_wh[tx.bcpup] THEN "pos" ELSE "neg",
                         !.ph = Append(@, "WhiteoutResolved")]
             /\ UNCHANGED <<held, lk>>
          \/ /\ Fail("out_parent", "ENOMEM")
             /\ Dropped(UnpinOnError(TRUE))
  /\ UNCHANGED <<d, h_obj, h_wh, h_opq, h_mtime, pre, cvars, pvars>>


(***************************************************************************)
(* The creation in the branch: add_simple(), lines 267-288, and            *)
(* aufs_mkdir(), lines 496-516.                                            *)
(***************************************************************************)
\* an epilog() that runs whether the creation failed or not
AfterNativeAlways(err) == "ep_wh"

\* add_simple(), lines 286-288: created = !err; if (!err) err = epilog(...)
AfterNative(err) == IF err = "ok" THEN "ep_wh" ELSE "unpin"

\* aufs_mkdir(), lines 501-507: after vfsub_mkdir()
AfterMkdir(err, wh_dentry) ==
  IF err # "ok" THEN "unpin"
  ELSE IF wh_dentry # "NULL" THEN "diropq"
  ELSE "ep_wh"

\* vfsub_create(), vfsub_symlink(), vfsub_mknod() or vfsub_mkdir() at
\* btop = au_dbtop(dentry); the branch refuses a name that exists
Native ==
  /\ tx.pc = "native"
  /\ LET btop == d.di_btop
         next(e) == IF IsMkdir THEN AfterMkdir(e, tx.wh_dentry)
                    ELSE AfterNative(e)
     IN  \/ /\ h_obj[btop] = "none"
            /\ h_obj' = [h_obj EXCEPT
                           ![btop] = IF IsMkdir THEN "dir" ELSE "file"]
            /\ h_mtime' = [h_mtime EXCEPT ![btop] = "new"]
            /\ tx' = [tx EXCEPT !.pc = next("ok"), !.btop = btop,
                                !.err = "ok", !.created = TRUE,
                                !.ph = Append(@, "NativeOpDone")]
         \/ /\ \E e \in IF h_obj[btop] = "none" THEN NativeErrors
                        ELSE {"EEXIST"} :
                 tx' = [tx EXCEPT !.pc = next(e), !.btop = btop, !.err = e,
                                  !.native_err = e,
                                  !.ph = Append(@, "NativeOpDone")]
            /\ UNCHANGED <<h_obj, h_mtime>>
  /\ UNCHANGED <<d, h_wh, h_opq, held, lk, pre, cvars, pvars>>

\* a mkdir that leaves its directory when au_diropq_create() failed
AfterDiropqNoRevert(failed) == IF failed THEN "unpin" ELSE "ep_wh"

\* aufs_mkdir(), lines 511-518: if (IS_ERR(opq_dentry)) goto out_dir
AfterDiropq(failed) == IF failed THEN "rev_dir" ELSE "ep_wh"

\* aufs_mkdir(), lines 507-516: au_diropq_create(dentry, bindex)
Diropq ==
  /\ tx.pc = "diropq"
  /\ \/ /\ h_opq' = [h_opq EXCEPT ![tx.btop] = TRUE]
        /\ tx' = [tx EXCEPT !.pc = AfterDiropq(FALSE), !.diropq = TRUE]
     \/ /\ Fail(AfterDiropq(TRUE), "ENOSPC")
        /\ UNCHANGED h_opq
  /\ UNCHANGED <<d, h_obj, h_wh, h_mtime, held, lk, pre, cvars, pvars>>

(***************************************************************************)
(* epilog(), lines 19-71.                                                  *)
(***************************************************************************)
\* where the caller goes when epilog() returns err
AfterEpilog(err) ==
  IF ~IsMkdir THEN "revert"
  ELSE IF err = "ok" THEN "unpin"
  ELSE IF tx.diropq THEN "rev_opq"
  ELSE "rev_dir"

\* an epilog() that leaves the whiteout
EpilogKeepsWh(wh_dentry) == FALSE

\* line 31: if (wh_dentry)
EpilogUnlinksWh(wh_dentry) == wh_dentry # "NULL"

\* lines 29-42: bwh = au_dbwh(dentry); au_wh_unlink_dentry()
EpilogWh ==
  /\ tx.pc = "ep_wh"
  /\ IF ~EpilogUnlinksWh(tx.wh_dentry)
     THEN /\ Goto("ep_inode")
          /\ UNCHANGED <<h_wh, d>>
     ELSE \/ /\ h_wh[tx.btop]
             /\ h_wh' = [h_wh EXCEPT ![tx.btop] = FALSE]
             /\ d' = [d EXCEPT !.di_bwh = NoBranch]
             /\ tx' = [tx EXCEPT !.pc = "ep_inode", !.bwh = d.di_bwh]
          \/ /\ tx' = [tx EXCEPT !.pc = AfterEpilog("EPERM"),
                                 !.err = "EPERM", !.bwh = d.di_bwh]
             /\ UNCHANGED <<h_wh, d>>
  /\ UNCHANGED <<h_obj, h_opq, h_mtime, held, lk, pre, cvars, pvars>>

\* a revert whose failure is not reported
RevertKeepsErr(err, failed) == err

\* lines 61-66: the error when the whiteout was, or was not, re-created
RevertErr(err, failed) == IF failed THEN "EIO" ELSE err

\* an epilog() that does not put the whiteout back
NoWhRevert(wh_dentry) == AfterEpilog("ENOMEM")

\* lines 53-55: if (!wh_dentry) goto out, else the revert
AfterNewInodeFail(wh_dentry) ==
  IF wh_dentry = "NULL" THEN AfterEpilog("ENOMEM") ELSE "ep_revert"

\* lines 44-56: au_new_inode(); d_instantiate(), au_dir_ts() and return 0
EpilogInode ==
  /\ tx.pc = "ep_inode"
  /\ \/ /\ d' = [d EXCEPT !.positive = TRUE]
        /\ tx' = [tx EXCEPT !.pc = AfterEpilog("ok"), !.err = "ok",
                            !.ph = Append(@, "Committed")]
     \/ /\ tx' = [tx EXCEPT !.err = "ENOMEM",
                            !.pc = AfterNewInodeFail(tx.wh_dentry)]
        /\ UNCHANGED d
  /\ UNCHANGED <<h_obj, h_wh, h_opq, h_mtime, held, lk, pre, cvars, pvars>>

\* lines 58-67: wh = au_wh_create(dentry, bwh, wh_dentry->d_parent)
EpilogRevert ==
  /\ tx.pc = "ep_revert"
  /\ \/ /\ h_wh' = [h_wh EXCEPT ![tx.bwh] = TRUE]
        /\ d' = [d EXCEPT !.di_bwh = tx.bwh]
        /\ tx' = [tx EXCEPT !.pc = AfterEpilog(tx.err),
                            !.err = RevertErr(tx.err, FALSE)]
     \/ /\ UNCHANGED <<h_wh, d>>
        /\ tx' = [tx EXCEPT !.pc = AfterEpilog("EIO"),
                            !.err = RevertErr(tx.err, TRUE),
                            !.rb_failed = TRUE, !.wh_failed = TRUE]
  /\ UNCHANGED <<h_obj, h_opq, h_mtime, held, lk, pre, cvars, pvars>>

(***************************************************************************)
(* The reverts of the callers.                                             *)
(***************************************************************************)
\* a revert that also runs when the call succeeded
AlwaysUnlink(created, err, h_positive) == created /\ h_positive

\* a failure that leaves the object it created
NeverUnlink(created, err, h_positive) == FALSE

\* add_simple(), line 291
MustUnlink(created, err, h_positive) == created /\ err # "ok" /\ h_positive

\* add_simple(), lines 290-301: vfsub_unlink(), au_dtime_revert()
Revert ==
  /\ tx.pc = "revert"
  /\ IF ~MustUnlink(tx.created, tx.err, h_obj[tx.btop] # "none")
     THEN /\ Goto("unpin")
          /\ UNCHANGED <<h_obj, h_mtime>>
     ELSE /\ h_mtime' = [h_mtime EXCEPT ![tx.bcpup] = tx.dt]
          /\ \/ /\ h_obj' = [h_obj EXCEPT ![tx.btop] = "none"]
                /\ tx' = [tx EXCEPT !.pc = "unpin",
                                    !.err = RevertErr(tx.err, FALSE)]
             \/ /\ UNCHANGED h_obj
                /\ tx' = [tx EXCEPT !.pc = "unpin",
                                    !.err = RevertErr(tx.err, TRUE),
                                    !.rb_failed = TRUE]
  /\ UNCHANGED <<d, h_wh, h_opq, held, lk, pre, cvars, pvars>>

\* a revert that gives up at the first step that fails
StopOnFailure(failed) == IF failed THEN "unpin" ELSE "rev_dir"

\* aufs_mkdir(), lines 528-539: after au_diropq_remove() the revert goes
\* on at out_dir, whether the removal failed or not
AfterRevertOpq(failed) == "rev_dir"

\* aufs_mkdir(), lines 525-535: au_diropq_remove(dentry, bindex)
RevertOpq ==
  /\ tx.pc = "rev_opq"
  /\ \/ /\ h_opq' = [h_opq EXCEPT ![tx.btop] = FALSE]
        /\ tx' = [tx EXCEPT !.pc = AfterRevertOpq(FALSE),
                            !.err = RevertErr(tx.err, FALSE),
                            !.undo = Append(@, "opq")]
     \/ /\ UNCHANGED h_opq
        /\ tx' = [tx EXCEPT !.pc = AfterRevertOpq(TRUE),
                            !.err = RevertErr(tx.err, TRUE),
                            !.rb_failed = TRUE,
                            !.undo = Append(@, "opq")]
  /\ UNCHANGED <<d, h_obj, h_wh, h_mtime, held, lk, pre, cvars, pvars>>

\* aufs_mkdir(), lines 537-544: vfsub_rmdir(); the branch refuses to
\* remove a directory that is not empty
RevertDir ==
  /\ tx.pc = "rev_dir"
  /\ \/ /\ ~h_opq[tx.btop]
        /\ h_obj' = [h_obj EXCEPT ![tx.btop] = "none"]
        /\ tx' = [tx EXCEPT !.pc = "rev_dt",
                            !.err = RevertErr(tx.err, FALSE),
                            !.undo = Append(@, "dir")]
     \/ /\ UNCHANGED h_obj
        /\ tx' = [tx EXCEPT !.pc = "rev_dt",
                            !.err = RevertErr(tx.err, TRUE),
                            !.rb_failed = TRUE,
                            !.undo = Append(@, "dir")]
  /\ UNCHANGED <<d, h_wh, h_opq, h_mtime, held, lk, pre, cvars, pvars>>

\* aufs_mkdir(), line 545: au_dtime_revert(&a->dt)
RevertDtime ==
  /\ tx.pc = "rev_dt"
  /\ h_mtime' = [h_mtime EXCEPT ![tx.bcpup] = tx.dt]
  /\ tx' = [tx EXCEPT !.pc = "unpin", !.undo = Append(@, "dt")]
  /\ UNCHANGED <<d, h_obj, h_wh, h_opq, held, lk, pre, cvars, pvars>>

(***************************************************************************)
(* The way out: add_simple(), lines 303-317, aufs_mkdir(), lines 546-560.  *)
(***************************************************************************)
\* au_unpin(&a->pin); dput(wh_dentry)
Unpin ==
  /\ tx.pc = "unpin"
  /\ Dropped(<<"pin">>)
  /\ Goto("out_parent")
  /\ UNCHANGED <<d, h_obj, h_wh, h_opq, h_mtime, pre, cvars, pvars>>

\* out_parent: di_write_unlock(parent)
OutParent ==
  /\ tx.pc = "out_parent"
  /\ Dropped(<<"di_parent">>)
  /\ Goto("out_unlock")
  /\ UNCHANGED <<d, h_obj, h_wh, h_opq, h_mtime, pre, cvars, pvars>>

\* a way out that leaves the dentry as it is
MarkStaleNever(err) == FALSE

\* lines 309, 552: if (unlikely(err))
MarkStale(err) == err # "ok"

\* out_unlock, lines 308-312, 551-555: au_update_dbtop() and d_drop() when
\* the call failed
OutUnlock ==
  /\ tx.pc = "out_unlock"
  /\ d' = IF MarkStale(tx.err)
          THEN [d EXCEPT !.di_btop = TopOf(0, d.hd), !.unhashed = TRUE]
          ELSE d
  /\ Goto("read_unlock")
  /\ UNCHANGED <<h_obj, h_wh, h_opq, h_mtime, held, lk, pre, cvars, pvars>>

\* lines 313, 556: aufs_read_unlock(dentry, AuLock_DW)
AufsReadUnlock ==
  /\ tx.pc = "read_unlock"
  /\ Dropped(<<"di_child", "si">>)
  /\ Goto("out_free")
  /\ UNCHANGED <<d, h_obj, h_wh, h_opq, h_mtime, pre, cvars, pvars>>

\* out_free: au_kfree_rcu(a)
OutFree ==
  /\ tx.pc = "out_free"
  /\ Goto("out")
  /\ UNCHANGED <<d, h_obj, h_wh, h_opq, h_mtime, held, lk, pre, cvars, pvars>>

\* out: return err
Out ==
  /\ tx.pc = "out"
  /\ tx' = [tx EXCEPT !.pc = "done", !.ret = tx.err,
                      !.ph = IF tx.err = "ok" THEN @
                             ELSE Append(@, "RolledBack")]
  /\ UNCHANGED <<d, h_obj, h_wh, h_opq, h_mtime, held, lk, pre, cvars, pvars>>

(***************************************************************************)
(* aufs_tmpfile(), lines 355-452.  The file it makes has no name in the    *)
(* branch, so the names of the branches are left alone.                    *)
(***************************************************************************)
\* the dentry of a temporary file is new: negative, without name in the
\* directory and without dinfo
TmpInit ==
  /\ h_obj \in [Branches -> {"none", "file"}]
  /\ h_wh = [b \in Branches |-> FALSE]
  /\ d = [unhashed |-> TRUE, positive |-> FALSE, di_btop |-> NoBranch,
          di_bbot |-> NoBranch, di_bwh |-> NoBranch, hd |-> {}]
  /\ h_opq = [b \in Branches |-> FALSE]
  /\ h_mtime = [b \in Branches |-> "old"]
  /\ held = <<>>
  /\ lk = NoLocks
  /\ pre = [obj |-> h_obj, wh |-> h_wh, positive |-> FALSE,
            bwh |-> NoBranch, unhashed |-> TRUE]
  /\ tx = [pc |-> "t_inode_lock", type |-> "Tmpfile", udba |-> "NONE",
           toolong |-> FALSE, err |-> "ok", bcpup |-> NoBranch,
           btop |-> NoBranch, wh_dentry |-> "NULL", bwh |-> NoBranch,
           created |-> FALSE, diropq |-> FALSE, dt |-> "none",
           rb_failed |-> FALSE, native_err |-> "none", ret |-> "none",
             undo |-> <<>>, ph |-> <<>>, h_ref |-> 0, wh_failed |-> FALSE]

\* line 369: inode_lock(dir)
TmpInodeLock ==
  /\ tx.pc = "t_inode_lock"
  /\ Took(<<"i_mutex">>)
  /\ Goto("t_si_lock")
  /\ UNCHANGED <<d, h_obj, h_wh, h_opq, h_mtime, pre, cvars, pvars>>

\* lines 372-374: si_read_lock(sb, AuLock_FLUSH | AuLock_NOPLM), which
\* fails when a foreign owner holds the maintenance mode and then holds
\* nothing
TmpSiLock ==
  /\ tx.pc = "t_si_lock"
  /\ \/ /\ Took(<<"si">>)
        /\ Goto("t_di_init")
     \/ /\ Fail("t_out", "EAGAIN")
        /\ UNCHANGED <<held, lk>>
  /\ UNCHANGED <<d, h_obj, h_wh, h_opq, h_mtime, pre, cvars, pvars>>

\* lines 376-378: au_di_init(dentry) gives the dentry its dinfo, locked
\* for writing
TmpDiInit ==
  /\ tx.pc = "t_di_init"
  /\ \/ /\ Took(<<"di_child">>)
        /\ Goto("t_lock_parent")
     \/ /\ Fail("t_out_si", "ENOMEM")
        /\ UNCHANGED <<held, lk>>
  /\ UNCHANGED <<d, h_obj, h_wh, h_opq, h_mtime, pre, cvars, pvars>>

\* lines 380-389: di_write_lock_parent(parent), then the tests of the
\* alias and of the generation of the parent
TmpLockParent ==
  /\ tx.pc = "t_lock_parent"
  /\ Took(<<"di_parent">>)
  /\ \/ Goto("t_wr_dir")
     \/ Fail("t_out_parent", "EBUSY")
     \/ Fail("t_out_parent", "EIO")
  /\ UNCHANGED <<d, h_obj, h_wh, h_opq, h_mtime, pre, cvars, pvars>>

\* line 446: dentry->d_fsdata = NULL after au_di_fin(), which puts the
\* lower dentries the dinfo still has
NoDinfo(dd) == [dd EXCEPT !.di_btop = NoBranch, !.di_bbot = NoBranch,
                          !.hd = {}]

\* lines 391-397: the dentry gets the top of the parent as its range, and
\* au_wr_dir() selects the branch
TmpWrDir ==
  /\ tx.pc = "t_wr_dir"
  /\ \E ptop \in Branches :
       d' = [d EXCEPT !.di_btop = ptop, !.di_bbot = ptop]
  /\ \/ \E b \in Branches : tx' = [tx EXCEPT !.pc = "t_want_write",
                                               !.bcpup = b]
     \/ Fail("t_out_parent", "EROFS")
  /\ UNCHANGED <<h_obj, h_wh, h_opq, h_mtime, held, lk, pre, cvars, pvars>>

\* lines 399-407: the branch has no ->tmpfile, or vfsub_mnt_want_write()
TmpWantWrite ==
  /\ tx.pc = "t_want_write"
  /\ \/ /\ Took(<<"mnt_write">>)
        /\ Goto("t_create")
     \/ /\ \E e \in {"EOPNOTSUPP", "EROFS"} : Fail("t_out_parent", e)
        /\ UNCHANGED <<held, lk>>
  /\ UNCHANGED <<d, h_obj, h_wh, h_opq, h_mtime, pre, cvars, pvars>>

\* lines 409-418: vfs_tmpfile() gives the object with one reference, and
\* the dentry records it at the branch with a reference of its own
TmpCreate ==
  /\ tx.pc = "t_create"
  /\ \/ /\ \E e \in NativeErrors :
             tx' = [tx EXCEPT !.pc = "t_out_mnt", !.err = e,
                              !.native_err = e]
        /\ UNCHANGED d
     \/ /\ tx' = [tx EXCEPT !.pc = "t_new_inode", !.btop = tx.bcpup,
                            !.created = TRUE, !.h_ref = 2]
        /\ d' = [d EXCEPT !.di_btop = tx.bcpup, !.di_bbot = tx.bcpup,
                          !.hd = {tx.bcpup}]
  /\ UNCHANGED <<h_obj, h_wh, h_opq, h_mtime, held, lk, pre, cvars, pvars>>

\* a failure that leaves the object in the dentry
TmpKeep(dd, bindex) == dd

\* lines 421-424: au_set_h_dptr(dentry, bindex, NULL),
\* au_set_dbtop(dentry, -1), au_set_dbbot(dentry, -1)
TmpDetach(dd, bindex) ==
  [dd EXCEPT !.hd = @ \ {bindex}, !.di_btop = NoBranch,
             !.di_bbot = NoBranch]

\* lines 419-435: au_new_inode(), then d_tmpfile() or the detaching, and
\* dput(h_dentry)
TmpNewInode ==
  /\ tx.pc = "t_new_inode"
  /\ \/ /\ d' = [d EXCEPT !.positive = TRUE]
        /\ tx' = [tx EXCEPT !.pc = "t_out_mnt", !.err = "ok",
                            !.h_ref = @ - 1]
     \/ /\ d' = TmpDetach(d, tx.bcpup)
        /\ tx' = [tx EXCEPT !.pc = "t_out_mnt", !.err = "ENOMEM",
                            !.h_ref = @ - Cardinality(d.hd \ d'.hd) - 1]
  /\ UNCHANGED <<h_obj, h_wh, h_opq, h_mtime, held, lk, pre, cvars, pvars>>

\* out_mnt, line 438: vfsub_mnt_drop_write(h_mnt)
TmpOutMnt ==
  /\ tx.pc = "t_out_mnt"
  /\ Dropped(<<"mnt_write">>)
  /\ Goto("t_out_parent")
  /\ UNCHANGED <<d, h_obj, h_wh, h_opq, h_mtime, pre, cvars, pvars>>

\* out_parent, lines 440-446: di_write_unlock(parent),
\* di_write_unlock(dentry), and au_di_fin(dentry) when the call failed
TmpOutParent ==
  /\ tx.pc = "t_out_parent"
  /\ Dropped(<<"di_parent", "di_child">>)
  /\ d' = IF tx.err # "ok" THEN NoDinfo(d) ELSE d
  /\ tx' = [tx EXCEPT !.pc = "t_out_si",
                      !.h_ref = @ - Cardinality(d.hd \ d'.hd)]
  /\ UNCHANGED <<h_obj, h_wh, h_opq, h_mtime, pre, cvars, pvars>>

\* out_si, line 448: si_read_unlock(sb)
TmpOutSi ==
  /\ tx.pc = "t_out_si"
  /\ Dropped(<<"si">>)
  /\ Goto("t_out")
  /\ UNCHANGED <<d, h_obj, h_wh, h_opq, h_mtime, pre, cvars, pvars>>

\* out, lines 450-451: inode_unlock(dir); return err
TmpOut ==
  /\ tx.pc = "t_out"
  /\ Dropped(<<"i_mutex">>)
  /\ tx' = [tx EXCEPT !.pc = "t_done", !.ret = tx.err]
  /\ UNCHANGED <<d, h_obj, h_wh, h_opq, h_mtime, pre, cvars, pvars>>

TmpNext ==
  \/ TmpInodeLock \/ TmpSiLock \/ TmpDiInit \/ TmpLockParent
  \/ TmpWrDir \/ TmpWantWrite \/ TmpCreate \/ TmpNewInode
  \/ TmpOutMnt \/ TmpOutParent \/ TmpOutSi \/ TmpOut

ANext ==
  \/ Kmalloc \/ AufsReadLock \/ DMayAdd \/ LockParent
  \/ WrDir \/ Pin \/ MayAdd \/ WhLkup
  \/ Native \/ Diropq
  \/ EpilogWh \/ EpilogInode \/ EpilogRevert
  \/ Revert \/ RevertOpq \/ RevertDir \/ RevertDtime
  \/ Unpin \/ OutParent \/ OutUnlock \/ AufsReadUnlock \/ OutFree \/ Out

(***************************************************************************)
(***************************************************************************)
(* The dinfo locks of the creation calls, as add_simple(), aufs_mkdir()    *)
(* and aufs_tmpfile() take them, for calls that run concurrently.  The     *)
(* dentries form a tree; a call creates the dentry it is given under       *)
(* dentry->d_parent.  The lock of the parent's inode, which the VFS holds  *)
(* around a creation, is left out: the calls that share a parent are not   *)
(* serialized by it here.                                                  *)
(***************************************************************************)
(***************************************************************************)
Dentries == 0..(NDentry - 1)

\* dentry->d_parent, line 253: the tree 0 <- 1, 0 <- 2, 1 <- 3, 1 <- 4, ...
d_parent(e) == (e - 1) \div 2

CrTypes == {"add", "tmpfile"}

CrIdle == [pc |-> "idle", dentry |-> 0, type |-> "add"]

\* no creation call runs
CParked ==
  /\ di_rwsem = [e \in Dentries |-> 0]
  /\ cr = [t \in Tasks |-> CrIdle]

CInit == CParked

\* a tmpfile that locks the parent before its own dentry
TmpParentFirst(e, type) ==
  IF type = "tmpfile" THEN <<d_parent(e), e>> ELSE <<e, d_parent(e)>>

\* the order of the dinfo locks: aufs_read_lock(dentry, AuLock_DW) or
\* au_di_init(dentry), class child, then di_write_lock_parent(parent)
\* (lines 254 and 260, 481 and 489, 376 and 383)
LockOrder(e, type) == <<e, d_parent(e)>>

CrSet(t, rec) == cr' = [cr EXCEPT ![t] = rec]

\* a task is given a dentry to create
CrBegin(t) ==
  /\ cr[t].pc = "idle"
  /\ \E e \in Dentries \ {0}, type \in CrTypes :
       CrSet(t, [pc |-> "lock_child", dentry |-> e, type |-> type])
  /\ UNCHANGED <<di_rwsem, tx, d, h_obj, h_wh, h_opq, h_mtime, held, lk,
                 pre, pvars>>

\* lines 254, 481, 376: the dinfo of the dentry is locked for writing,
\* when no task holds it; then au_d_may_add() (lines 257, 484) sends
\* add_simple() and aufs_mkdir() on or out
DiWriteLockChild(t) ==
  /\ cr[t].pc = "lock_child"
  /\ LET l == LockOrder(cr[t].dentry, cr[t].type)[1]
     IN  /\ di_rwsem[l] = 0
         /\ di_rwsem' = [di_rwsem EXCEPT ![l] = t]
  /\ \/ CrSet(t, [cr[t] EXCEPT !.pc = "lock_parent"])
     \/ /\ cr[t].type = "add"
        /\ CrSet(t, [cr[t] EXCEPT !.pc = "unlock_child"])
  /\ UNCHANGED <<tx, d, h_obj, h_wh, h_opq, h_mtime, held, lk, pre, pvars>>

\* lines 260, 489, 383: di_write_lock_parent(parent)
DiWriteLockParent(t) ==
  /\ cr[t].pc = "lock_parent"
  /\ LET l == LockOrder(cr[t].dentry, cr[t].type)[2]
     IN  /\ di_rwsem[l] = 0
         /\ di_rwsem' = [di_rwsem EXCEPT ![l] = t]
  /\ CrSet(t, [cr[t] EXCEPT !.pc = "unlock_parent"])
  /\ UNCHANGED <<tx, d, h_obj, h_wh, h_opq, h_mtime, held, lk, pre, pvars>>

\* lines 307, 550, 440: di_write_unlock(parent)
DiWriteUnlockParent(t) ==
  /\ cr[t].pc = "unlock_parent"
  /\ di_rwsem' = [di_rwsem EXCEPT
                    ![LockOrder(cr[t].dentry, cr[t].type)[2]] = 0]
  /\ CrSet(t, [cr[t] EXCEPT !.pc = "unlock_child"])
  /\ UNCHANGED <<tx, d, h_obj, h_wh, h_opq, h_mtime, held, lk, pre, pvars>>

\* lines 313, 556, 442: aufs_read_unlock(dentry, AuLock_DW) or
\* di_write_unlock(dentry), and the call returns
DiWriteUnlockChild(t) ==
  /\ cr[t].pc = "unlock_child"
  /\ di_rwsem' = [di_rwsem EXCEPT
                    ![LockOrder(cr[t].dentry, cr[t].type)[1]] = 0]
  /\ CrSet(t, CrIdle)
  /\ UNCHANGED <<tx, d, h_obj, h_wh, h_opq, h_mtime, held, lk, pre, pvars>>

LocksNext ==
  \E t \in Tasks :
    \/ CrBegin(t)
    \/ DiWriteLockChild(t) \/ DiWriteLockParent(t)
    \/ DiWriteUnlockParent(t) \/ DiWriteUnlockChild(t)

(***************************************************************************)
(* The specifications.                                                     *)
(***************************************************************************)
vars == <<pvars, avars>>

\* the maintenance mode
Init == PParked /\ AParked /\ CParked
Next == GateNext
Spec == Init /\ [][Next]_vars

\* the scheduler: a task that began a call goes on with it as long as its
\* next step is possible (no task is made to begin a call, and none to end
\* the operation it does under the lock it got), and the rw_semaphore
\* serves a reader that is queued for it
GateFair ==
  \A t \in Tasks :
    /\ WF_vars(EnterCS(t) \/ EnterUnlock(t) \/ LeaveWake(t)
                \/ ReadLockFail(t) \/ MaintLoop(t) \/ MaintUnlock(t)
                \/ MaintWait(t) \/ MaintWoken(t)
                \/ PlinkPut(t) \/ CleanUnlock(t))
    /\ SF_vars(MaintRelock(t))

\* the maintenance mode under that scheduler
SpecLive == Init /\ [][Next]_vars /\ GateFair

\* the table of the pseudo-links
PlinkInit == PInit /\ AParked /\ CParked
SpecPlink == PlinkInit /\ [][PlinkNext]_vars

\* one creation call: add_simple(), aufs_mkdir() or aufs_tmpfile()
AddInit == (AInit \/ TmpInit) /\ PParked /\ CParked
AddNext == ANext \/ TmpNext
SpecAdd == AddInit /\ [][AddNext]_vars

\* the dinfo locks of concurrent creation calls
LocksInit == CInit /\ PParked /\ AParked
SpecLocks == LocksInit /\ [][LocksNext]_vars

(***************************************************************************)
(* Properties of the maintenance mode (Spec).                              *)
(***************************************************************************)
\* the step of au_plink_maint_enter() under si_plink_maint_lock: on a free
\* gate the caller becomes the owner and gets 0, on a held gate nothing
\* changes and the caller gets -EBUSY
C1_EnterStep ==
  \A t \in Tasks :
    (th[t].pc = "en_cs" /\ th'[t].pc = "en_unlock") =>
      IF si_plink_maint_pid = 0
      THEN si_plink_maint_pid' = t /\ th'[t].err = "ok"
      ELSE si_plink_maint_pid' = si_plink_maint_pid /\ th'[t].err = "EBUSY"

\* C1: the gate has at most one owner in every reachable state: the tasks
\* whose au_plink_maint_enter() succeeded since the gate was last free are
\* none when si_plink_maint_pid is 0 and else the one task it names; of the
\* calls that reach a free gate one succeeds and records its pid, and every
\* call that finds the gate held returns -EBUSY and leaves the owner.
C1_GateExclusion ==
  /\ [](/\ Cardinality(maint_entered) <= 1
        /\ (si_plink_maint_pid = 0 <=> maint_entered = {})
        /\ (si_plink_maint_pid # 0 => maint_entered = {si_plink_maint_pid}))
  /\ [][C1_EnterStep]_vars

\* two tasks called au_plink_maint_enter(): one owns the gate, the other is
\* about to return -EBUSY
C1_Witness ==
  \E t, u \in Tasks :
    /\ t # u
    /\ th[t].pc = "en_unlock" /\ th[t].err = "EBUSY"
    /\ maint_entered = {u} /\ si_plink_maint_pid = u

(***************************************************************************)
(* Properties of the creation calls (SpecAdd).                             *)
(***************************************************************************)
Done == tx.pc = "done"
Failed == Done /\ tx.ret \notin {"ok", "EIO"}

\* C2, as amended: a creation call that returns an error other than EIO
\* leaves every branch as it found it: a branch holds an object of the name
\* only where it held one before the call, no opaque marker is left, a
\* whiteout of the name exists in a branch if and only if it did before the
\* call, and the dentry is positive only if it was.
C2_FailureRestores ==
  Failed =>
    /\ h_obj = pre.obj
    /\ h_wh = pre.wh
    /\ \A b \in Branches : ~h_opq[b]
    /\ d.positive = pre.positive

\* a call that created its object in a branch that had a whiteout, failed in
\* epilog() after the whiteout was removed and has reverted both
C2_Witness ==
  /\ Failed
  /\ tx.created /\ tx.bwh # NoBranch
  /\ pre.wh[tx.bcpup] /\ h_wh[tx.bcpup]
  /\ h_obj[tx.bcpup] = "none"

\* C2, as stated: after a creation call that returns an error other than
\* EIO the name has no object in the target branch, the merged view has no
\* entry, and a whiteout exists in the target branch if and only if it did.
C2_AsStated ==
  Failed =>
    /\ ~d.positive
    /\ tx.bcpup # NoBranch =>
         /\ h_obj[tx.bcpup] = "none"
         /\ h_wh[tx.bcpup] = pre.wh[tx.bcpup]

C4_RevertFailureIsEIO ==
  (Done /\ tx.rb_failed) => tx.ret = "EIO"

\* a mkdir whose epilog() failed and whose directory could not be removed
C4_Witness ==
  /\ Done /\ tx.rb_failed /\ tx.ret = "EIO"
  /\ IsMkdir /\ tx.created /\ h_obj[tx.btop] = "dir"

\* the creation of a regular file failed in the branch, and the branch had
\* a whiteout of the name
C5_Case ==
  /\ Done /\ tx.type = "Creat"
  /\ tx.native_err # "none"
  /\ pre.wh[tx.bcpup]

\* C5: when vfsub_create() fails for a name that has a whiteout in the
\* target branch, then after the call the whiteout is where it was, the
\* dentry is negative, no branch got an object, and the call returns the
\* error of vfsub_create().
C5_NativeFailureKeepsWh ==
  C5_Case =>
    /\ h_wh = pre.wh /\ d.di_bwh = pre.bwh
    /\ ~d.positive /\ h_obj = pre.obj
    /\ tx.ret = tx.native_err

\* vfsub_create() failed with ENOSPC where a whiteout was
C5_Witness == C5_Case /\ tx.native_err = "ENOSPC" /\ h_wh[tx.bcpup]

(***************************************************************************)
(* Properties of the table of the pseudo-links (SpecPlink).                *)
(***************************************************************************)
\* the task is about to return from au_plink_append() for the inode, and
\* no other call for the inode is in progress: it is the last of its group
LastOut(t, ino) ==
  /\ th[t].pc = "ap_ret" /\ th[t].ino = ino
  /\ InAppend(ino) = {t}

\* calls of au_plink_append() for an inode overlapped, and the inode was
\* not in the table when the first of them began
C6_Case(t, ino) ==
  /\ LastOut(t, ino)
  /\ ap_group[ino].n >= 2
  /\ ~ap_group[ino].had

C7_Case(t, ino) ==
  /\ LastOut(t, ino)
  /\ ap_group[ino].n = 1
  /\ ap_group[ino].had

\* C7: a call of au_plink_append() for an inode that an earlier call put
\* in the table inserts nothing and takes no reference: at its return the
\* table holds one entry and one reference for the inode and the link farm
\* holds the link of the inode.
C7_Idempotent ==
  \A t \in Tasks, ino \in Inodes :
    C7_Case(t, ino) =>
      /\ ap_group[ino].ins = 0
      /\ Entries(ino) = 1
      /\ i_count[ino] = 1
      /\ plinkdir[ino] = "self"
      /\ nlink_made[ino] <= 1

\* the second call in sequence returns, the link was made by the first
C7_Witness ==
  \E t \in Tasks, ino \in Inodes :
    C7_Case(t, ino) /\ nlink_made[ino] = 1 /\ Entries(ino) = 1

\* C8: in every reachable state the table holds at most one entry for an
\* inode, and every entry is in the bucket au_plink_hash() gives for the
\* number of its inode.
C8_OneEntryInItsBucket ==
  /\ \A ino \in Inodes : Entries(ino) <= 1
  /\ \A b \in Buckets : \A k \in 1..Len(si_plink[b]) :
       au_plink_hash(si_plink[b][k]) = b

\* every inode is in the table, after two calls raced for one of them
C8_Witness ==
  /\ \A ino \in Inodes : Entries(ino) = 1
  /\ \E ino \in Inodes : ap_group[ino].n = 2 /\ ap_group[ino].ins = 1

\* the calls that hold the reference of au_igrab() and have not inserted
Grabbed(ino) == {u \in Tasks : th[u].ino = ino /\ th[u].pc = "ap_insert"}

\* the step of au_plink_append() after whplink() failed: the entry is out
\* of the table, au_plink_test() does not find the inode, the references
\* left are those of the calls that have not inserted yet, and the call
\* goes on to its return
C9_DelStep ==
  \A t \in Tasks :
    (th[t].pc = "ap_del" /\ th'[t].pc # "ap_del") =>
      LET ino == th[t].ino
      IN  /\ th'[t].pc = "ap_ret" /\ th'[t].err = "ok"
          /\ ~au_plink_test(ino)'
          /\ Entries(ino)' = 0
          /\ i_count'[ino] = i_count[ino] - 1
          /\ i_count'[ino] = Cardinality(Grabbed(ino))'

\* C9: when whplink() fails in au_plink_append(), the call removes the
\* entry it inserted and releases the reference it took: after that step
\* the inode is not in the table and the table holds no reference for it;
\* the call returns, and au_plink_append() returns no error.
C9_FailureRemoves == [][C9_DelStep]_vars

\* a call whose whplink() failed has removed its entry and returns
C9_Witness ==
  \E t \in Tasks :
    /\ th[t].pc = "ap_ret" /\ th[t].failed
    /\ Entries(th[t].ino) = 0 /\ i_count[th[t].ino] = 0

\* C10: when au_plink_put() has returned every bucket is empty, one
\* reference was released for each entry the table had, and the warning
\* was printed once if verbose is set and a bucket was not empty, and not
\* at all otherwise.
C10_FlushEmpties ==
  \A t \in Tasks :
    th[t].pc = "cl_unlock" =>
      /\ \A b \in Buckets : si_plink[b] = <<>>
      /\ \A i \in Inodes : i_count[i] = th[t].ref0[i] - th[t].cnt0[i]
      /\ th[t].nwarn <= 1
      /\ th[t].nwarn = 1 <=>
           (th[t].verbose /\ \E i \in Inodes : th[t].cnt0[i] > 0)

\* a verbose flush of a table that had an entry in every bucket
C10_Witness ==
  \E t \in Tasks :
    /\ th[t].pc = "cl_unlock" /\ th[t].verbose /\ th[t].nwarn = 1
    /\ \A i \in Inodes : th[t].cnt0[i] = 1 /\ i_count[i] = 0

\* a mkdir whose vfsub_mkdir() succeeded and whose au_diropq_create() failed
C11_Case ==
  /\ Done /\ IsMkdir
  /\ tx.created /\ tx.wh_dentry # "NULL" /\ ~tx.diropq

\* C11, as amended: when vfsub_mkdir() succeeds and au_diropq_create()
\* fails, and the vfsub_rmdir() of the revert succeeds, then after the
\* call the branch has no directory and no opaque marker of the call, every
\* branch holds the objects and the whiteouts it held before, the times of
\* the parent directory are those stored before the creation, the dentry
\* is negative, and the call returns the error of au_diropq_create(); when
\* vfsub_rmdir() fails the call returns EIO.
C11_OpqFailureUnwinds ==
  C11_Case =>
    IF tx.rb_failed THEN tx.ret = "EIO"
    ELSE /\ h_obj = pre.obj /\ h_obj[tx.btop] = "none"
         /\ \A b \in Branches : ~h_opq[b]
         /\ h_wh = pre.wh
         /\ h_mtime[tx.bcpup] = "old"
         /\ ~d.positive
         /\ tx.ret = "ENOSPC"

\* the directory was made, marking it opaque failed, and it was removed
C11_Witness ==
  /\ C11_Case /\ ~tx.rb_failed
  /\ h_obj[tx.btop] = "none" /\ tx.ret = "ENOSPC"

\* C11, as stated: when vfsub_mkdir() succeeds and au_diropq_create()
\* fails, then after the call the branch has no directory and no opaque
\* marker of the call and the times of the parent directory are restored.
C11_AsStated ==
  C11_Case =>
    /\ h_obj[tx.btop] = "none"
    /\ \A b \in Branches : ~h_opq[b]
    /\ h_mtime[tx.bcpup] = "old"

(***************************************************************************)
(* More properties of the maintenance mode (Spec, SpecLive).               *)
(***************************************************************************)
\* the task waits in au_plink_maint(): it released si_rwsem and is in
\* wait_event()
Blocked(t) == th[t].pc \in {"mt_wait", "mt_sleep"}

\* a waiter stays in wait_event() while the gate is held: it leaves its
\* sleep only when a leave took it off the queue, and it leaves
\* wait_event() only when it sees the gate free
C12_StayStep ==
  \A t \in Tasks :
    /\ (th[t].pc = "mt_sleep" /\ th'[t].pc # "mt_sleep")
         => (t \notin si_plink_wq /\ th'[t].pc = "mt_wait")
    /\ (Blocked(t) /\ ~Blocked(t)')
         => (si_plink_maint_pid = 0 /\ th'[t].pc = "mt_relock")

\* C12: a task that waits in au_plink_maint() with AuLock_NOPLMW stays in
\* wait_event() while the gate is held, and one au_plink_maint_leave()
\* wakes it: under the fair scheduler, in every run where the gate is
\* free from some point on (a leave has run and no owner enters after
\* it), a task that sleeps in wait_event() gets to the return of
\* au_plink_maint() with 0, holding si_rwsem for reading.
C12_WaiterWakes ==
  /\ [][C12_StayStep]_vars
  /\ \A t \in Tasks :
       \/ []<>(si_plink_maint_pid # 0)
       \/ (th[t].pc = "mt_sleep") ~>
            (th[t].pc = "body" /\ th[t].err = "ok" /\ t \in si_rwsem.r)

\* a task that slept in wait_event() is back from au_plink_maint() with 0
C12_Witness ==
  \E t \in Tasks :
    /\ th[t].pc = "body" /\ th[t].waited /\ th[t].err = "ok"
    /\ t \in si_rwsem.r /\ si_plink_maint_pid = 0

\* C13, as stated: when the owner of the gate calls au_plink_maint_enter()
\* again, the call does not fail with EBUSY and the owner stays the owner:
\* a task that is through the test of the call while it owns the gate has
\* err 0.
C13_AsStated ==
  \A t \in Tasks :
    (th[t].pc = "en_unlock" /\ si_plink_maint_pid = t) => th[t].err = "ok"

\* the owner of the gate called au_plink_maint_enter() again and is about
\* to return -EBUSY; it is still the owner
C13_Witness ==
  \E t \in Tasks :
    /\ th[t].pc = "en_unlock" /\ th[t].err = "EBUSY"
    /\ si_plink_maint_pid = t /\ maint_entered = {t}

\* the tasks up the real_parent chain of a task, n links far
RECURSIVE AncestorsOf(_, _)
AncestorsOf(p, n) ==
  IF n = 0 THEN {}
  ELSE {real_parent(p)} \cup AncestorsOf(real_parent(p), n - 1)

\* si_read_lock() with AuLock_NOPLM or AuLock_NOPLMW by a task that owns
\* the gate or has the owner up its parent chain: au_plink_maint() returns
\* 0 at once, the task keeps si_rwsem, the gate is as it was
C14_Step ==
  \A t \in Tasks :
    (/\ th[t].pc = "idle" /\ th'[t].op = "rlock"
     /\ \/ si_plink_maint_pid = t
        \/ si_plink_maint_pid \in AncestorsOf(t, NTasks + 2))
    => /\ th'[t].pc = "body" /\ th'[t].err = "ok"
       /\ ~th'[t].waited
       /\ t \in si_rwsem'.r
       /\ si_plink_maint_pid' = si_plink_maint_pid
       /\ si_plink_wq' = si_plink_wq

\* C14: au_plink_maint() takes the gate as not held when its owner is the
\* caller or a task up the real_parent chain of the caller: with
\* AuLock_NOPLM and with AuLock_NOPLMW it returns 0 without waiting and
\* without releasing si_rwsem; and the walk up the chain ends, after no
\* more rounds than there are tasks.
C14_OwnerPasses ==
  /\ [](\A t \in Tasks : WalkSteps(t, NoTask) <= NTasks + 2)
  /\ [][C14_Step]_vars

\* a task got through au_plink_maint() while the task that spawned it owns
\* the gate
C14_Witness ==
  \E t \in Tasks :
    /\ th[t].pc = "body" /\ th[t].op = "rlock" /\ ~th[t].waited
    /\ si_plink_maint_pid # 0 /\ si_plink_maint_pid = real_parent(t)
    /\ t \in si_rwsem.r

\* the gate is held, and its owner is neither the task nor up its chain
Foreign(t) ==
  /\ si_plink_maint_pid # 0
  /\ si_plink_maint_pid # t
  /\ si_plink_maint_pid \notin AncestorsOf(t, NTasks + 2)

\* si_read_lock() with AuLock_NOPLM while the gate is held by a foreign
\* owner: au_plink_maint() returns -EAGAIN at once
C15_Step ==
  \A t \in Tasks :
    (/\ th[t].pc = "idle" /\ th'[t].op = "rlock"
     /\ th'[t].flags = "NOPLM" /\ Foreign(t))
    => /\ th'[t].pc = "rl_fail" /\ th'[t].err = "EAGAIN"
       /\ t \in si_rwsem'.r
       /\ si_plink_maint_pid' = si_plink_maint_pid
       /\ maint_entered' = maint_entered
       /\ si_plink_wq' = si_plink_wq

\* C15: with AuLock_NOPLM, when the gate is held by an owner that is
\* neither the caller nor up its parent chain, au_plink_maint() returns
\* the error at once: the caller has not waited and has not been on the
\* wait queue, it still holds si_rwsem when au_plink_maint() returns, and
\* the gate is as it was; and a call with AuLock_NOPLM never waits.
C15_FastFail ==
  /\ [][C15_Step]_vars
  /\ [](\A t \in Tasks :
          /\ th[t].flags = "NOPLM" => (~th[t].waited /\ t \notin si_plink_wq)
          /\ th[t].pc = "rl_fail" =>
                (th[t].flags = "NOPLM" /\ t \in si_rwsem.r))

\* au_plink_maint() is about to return -EAGAIN to a task while another
\* task owns the gate
C15_Witness ==
  \E t \in Tasks :
    /\ th[t].pc = "rl_fail" /\ th[t].err = "EAGAIN"
    /\ th[t].flags = "NOPLM" /\ Foreign(t)
    /\ t \in si_rwsem.r

\* the steps of au_plink_maint() with AuLock_NOPLMW while a foreign owner
\* holds the gate: it enters the loop holding si_rwsem, releases si_rwsem
\* before wait_event(), takes it again after, and leaves the loop only
\* when it reads si_plink_maint_pid as 0 while holding si_rwsem
C16_Step ==
  \A t \in Tasks :
    /\ (/\ th[t].pc = "idle" /\ th'[t].op = "rlock"
        /\ th'[t].flags = "NOPLMW" /\ Foreign(t))
         => (th'[t].pc = "mt_loop" /\ t \in si_rwsem'.r)
    /\ (th[t].pc = "mt_loop" /\ th'[t].pc # "mt_loop")
         => IF si_plink_maint_pid = 0
            THEN th'[t].pc = "body" /\ th'[t].err = "ok"
                                   /\ t \in si_rwsem'.r
            ELSE th'[t].pc = "mt_unlock"
    /\ (th[t].pc = "mt_unlock" /\ th'[t].pc # "mt_unlock")
         => (th'[t].pc = "mt_wait" /\ t \notin si_rwsem'.r)
    /\ (th[t].pc = "mt_relock" /\ th'[t].pc # "mt_relock")
         => (th'[t].pc = "mt_loop" /\ t \in si_rwsem'.r)

\* C16: with AuLock_NOPLMW, when a foreign owner holds the gate,
\* au_plink_maint() releases si_rwsem before it waits, waits until the
\* gate is free, takes si_rwsem again and tests the gate again, in a loop.
\* A task in wait_event() or on the wait queue never holds si_rwsem, and a
\* task that is back from au_plink_maint() after it waited holds si_rwsem
\* and the gate is free.
C16_BlockingMode ==
  /\ [][C16_Step]_vars
  /\ [](\A t \in Tasks :
          /\ (Blocked(t) \/ th[t].pc = "mt_relock" \/ t \in si_plink_wq)
               => (t \notin si_rwsem.r /\ th[t].flags = "NOPLMW")
          /\ t \in si_plink_wq => th[t].pc = "mt_sleep"
          /\ (th[t].pc = "body" /\ th[t].waited)
               => (t \in si_rwsem.r /\ si_plink_maint_pid = 0))

\* a task has released si_rwsem and sleeps on the wait queue while another
\* task owns the gate
C16_Witness ==
  \E t \in Tasks :
    /\ th[t].pc = "mt_sleep" /\ t \in si_plink_wq
    /\ Foreign(t) /\ t \notin si_rwsem.r

\* the task runs an operation on the table of the pseudo-links: under
\* si_rwsem that si_read_lock() gave it with AuLock_NOPLM or AuLock_NOPLMW,
\* or in au_plink_put() under the write lock of au_plink_clean()
InPlinkOp(t) == th[t].pc \in {"body", "put", "cl_unlock"}

\* AuDebugOn(au_plink_maint(sb, AuLock_NOPLM)), lines 134, 158, 229, 365
\* and 416: the assertion at the start of the operations would fire
AssertFires(t) == MaintNext(si_plink_maint_pid, t, "NOPLM") = "rl_fail"

\* au_plink_maint_enter() succeeds only while the caller holds si_rwsem
\* for writing: no other task holds si_rwsem or is in an operation on the
\* table
C18_EnterStep ==
  \A t \in Tasks :
    (th[t].pc = "en_cs" /\ si_plink_maint_pid = 0
     /\ si_plink_maint_pid' = t)
    => /\ si_rwsem.w = t /\ si_rwsem.r = {}
       /\ \A u \in Tasks : ~InPlinkOp(u)

\* C18: no operation on the table of the pseudo-links runs while the gate
\* is held by an owner that is neither the task nor up its parent chain:
\* a task that got si_rwsem through au_plink_maint() holds it during the
\* operation and au_plink_maint(sb, AuLock_NOPLM) is 0 for it all the
\* time, so the assertions at the start of the operations do not fire;
\* and au_plink_maint_enter() succeeds only while no other task holds
\* si_rwsem.
C18_Quiescent ==
  /\ [](\A t \in Tasks :
          InPlinkOp(t) =>
            /\ ~AssertFires(t) /\ ~Foreign(t)
            /\ (t \in si_rwsem.r \/ si_rwsem.w = t))
  /\ [][C18_EnterStep]_vars

\* the owner of the gate runs an operation on the table while a task that
\* is not of its family sleeps in au_plink_maint()
C18_Witness ==
  \E t, u \in Tasks :
    /\ th[t].pc = "body" /\ si_plink_maint_pid = t
    /\ th[u].pc = "mt_sleep" /\ Foreign(u) /\ u \in si_plink_wq

(***************************************************************************)
(* More properties of the creation calls (SpecAdd).                        *)
(***************************************************************************)
\* a creation call that got as far as au_d_may_add(), for a dentry that is
\* positive or unhashed
C17_Case ==
  /\ Done /\ lk.acq["di_child"] = 1
  /\ (pre.positive \/ pre.unhashed)

\* the call ended before au_wr_dir(): no branch was selected, the parent
\* was not locked, nothing was pinned, no whiteout was looked up, nothing
\* was created, and the branches are as they were
C17_Early ==
  /\ tx.bcpup = NoBranch
  /\ lk.acq["di_parent"] = 0 /\ lk.acq["pin"] = 0
  /\ tx.wh_dentry = "NULL" /\ ~tx.created /\ tx.native_err = "none"
  /\ h_obj = pre.obj /\ h_wh = pre.wh
  /\ \A b \in Branches : ~h_opq[b] /\ h_mtime[b] = "old"

\* C17, as amended: add_simple() and aufs_mkdir() return -EEXIST for a
\* dentry that is positive, whether it is hashed or not, and -ENOENT for a
\* dentry that is negative and unhashed; in both cases before au_wr_dir()
\* selects a branch, before the parent is locked, and without a lookup of
\* the whiteout or a creation in a branch.
C17_RejectsEarly ==
  C17_Case =>
    /\ tx.ret = (IF pre.positive THEN "EEXIST" ELSE "ENOENT")
    /\ C17_Early

\* a call for a negative, unhashed dentry has returned -ENOENT
C17_Witness ==
  /\ C17_Case /\ pre.unhashed /\ ~pre.positive
  /\ tx.ret = "ENOENT" /\ lk.acq["di_parent"] = 0

\* C17, as stated: the calls return -EEXIST for a positive dentry and
\* -ENOENT for an unhashed dentry, before a branch is selected and the
\* parent is locked.
C17_AsStated ==
  C17_Case =>
    /\ pre.positive => tx.ret = "EEXIST"
    /\ pre.unhashed => tx.ret = "ENOENT"
    /\ C17_Early

\* a creation call has returned
Returned == tx.pc \in {"done", "t_done"}

\* the lock is among those the call holds
Holds(l) == \E k \in 1..Len(held) : held[k] = l

\* C19: when add_simple(), aufs_mkdir() or aufs_tmpfile() returns, with 0
\* or with an error, the call holds none of the locks and pins it took:
\* the dinfo lock of the dentry and of the parent, the pin of the branch
\* directory with its write access, the write access aufs_tmpfile() takes,
\* si_rwsem and the lock of the directory inode were each released as
\* often as taken, that is once; and at no time a lock is released that
\* is not held or taken twice.
C19_LocksBalanced ==
  /\ \A l \in Locks :
       /\ lk.rel[l] <= lk.acq[l] /\ lk.acq[l] <= 1
       /\ Holds(l) <=> (lk.acq[l] = 1 /\ lk.rel[l] = 0)
  /\ Returned =>
       /\ held = <<>>
       /\ \A l \in Locks : lk.rel[l] = lk.acq[l]

\* a call that failed in lock_hdir_lkup_wh() after au_pin() has returned:
\* the pin, the parent, the dentry and si_rwsem were released once
C19_Witness ==
  /\ Done /\ tx.ret = "ENOMEM" /\ ~tx.created
  /\ held = <<>>
  /\ \A l \in {"si", "di_child", "di_parent", "pin"} :
       lk.acq[l] = 1 /\ lk.rel[l] = 1

\* the dentry is marked stale: au_update_dbtop() has set its top anew and
\* d_drop() has taken it out of the name cache
Stale == d.unhashed /\ d.di_btop = TopOf(0, d.hd)

\* the step at out_unlock of a call that failed marks the dentry stale,
\* and the call holds the dinfo lock of the dentry during the step and
\* after it
C20_StaleStep ==
  (tx.pc = "out_unlock" /\ tx.err # "ok" /\ tx'.pc # "out_unlock")
    => /\ Holds("di_child") /\ Holds("di_child")'
       /\ Stale'

\* C20, as amended: when add_simple() or aufs_mkdir() fails after
\* aufs_read_lock() succeeded, then before the call returns the top branch
\* of the dentry is set anew and the dentry is dropped from the name
\* cache, while the call holds the dinfo lock of the dentry; the dentry
\* changes in no step in which that lock is not held.  A call that fails
\* in kmalloc() or in aufs_read_lock() leaves the dentry as it is.
C20_FailureMarksStale ==
  /\ [][C20_StaleStep]_vars
  /\ [][tx.type # "Tmpfile" /\ d' # d => Holds("di_child")]_vars
  /\ []((tx.pc = "read_unlock" /\ tx.err # "ok")
           => (Stale /\ Holds("di_child")))
  /\ []((Done /\ tx.ret # "ok") =>
           IF lk.acq["di_child"] = 1 THEN Stale
           ELSE d.unhashed = pre.unhashed)

\* a call that failed in the branch is about to unlock the dentry, which
\* was hashed and is dropped now
C20_Witness ==
  /\ tx.pc = "read_unlock" /\ tx.err = "ENOSPC"
  /\ ~pre.unhashed /\ d.unhashed
  /\ Holds("di_child")

\* C20, as stated: on any failure of add_simple() or aufs_mkdir() the
\* dentry is dropped from the name cache and its top is set anew before
\* the call returns.
C20_AsStated ==
  (Done /\ tx.ret # "ok") => Stale

\* a mkdir that failed after vfsub_mkdir() succeeded
C21_Case == Done /\ IsMkdir /\ tx.created /\ tx.ret # "ok"

\* the steps of the revert of aufs_mkdir(), in the order of the code
C21_Order ==
  (IF tx.diropq THEN <<"opq">> ELSE <<>>) \o <<"dir", "dt">>

\* C21: when aufs_mkdir() fails after vfsub_mkdir() succeeded, the revert
\* runs au_diropq_remove() if the marker was set, then vfsub_rmdir(), then
\* au_dtime_revert(), each once and in that order; a step that fails makes
\* the call return EIO and the steps after it run all the same; a mkdir
\* that succeeds or that made no directory reverts nothing.
C21_UnwindOrder ==
  /\ C21_Case =>
       /\ tx.undo = C21_Order
       /\ tx.rb_failed => tx.ret = "EIO"
       /\ h_mtime[tx.bcpup] = "old"
  /\ (Done /\ IsMkdir /\ ~C21_Case) => tx.undo = <<>>

\* the removal of the opaque marker failed, and the rmdir and the restore
\* of the times were run after it
C21_Witness ==
  /\ C21_Case /\ tx.diropq /\ h_opq[tx.btop]
  /\ tx.undo = <<"opq", "dir", "dt">> /\ tx.ret = "EIO"

\* lock_hdir_lkup_wh() has returned without error: the whiteout was looked
\* up (wh_dentry is the dentry found) or not (wh_dentry is NULL)
C22_Case == tx.pc = "native"

\* C22, as amended: lock_hdir_lkup_wh() looks the whiteout up in the
\* selected branch exactly when that branch is the whiteout position of
\* the dentry (au_dbwh); it leaves the lookup out in every other case:
\* when the position is below the branch, when it is above it, and when
\* the dentry has no whiteout position.
C22_SkipRule ==
  /\ C22_Case =>
       /\ tx.wh_dentry = "NULL" <=> tx.bcpup # d.di_bwh
       /\ tx.wh_dentry = "pos" <=> (tx.bcpup = d.di_bwh /\ h_wh[tx.bcpup])
  /\ (tx.pc \in {"wr_dir", "pin", "may_add", "wh_lkup"})
       => tx.wh_dentry = "NULL"

\* the lookup was left out for a dentry whose whiteout position is above
\* the selected branch
C22_Witness ==
  /\ C22_Case /\ tx.wh_dentry = "NULL"
  /\ d.di_bwh # NoBranch /\ d.di_bwh < tx.bcpup

\* C22, as stated: the lookup of the whiteout is left out exactly when
\* the whiteout position of the dentry is strictly below the selected
\* branch.
C22_AsStated ==
  C22_Case =>
    (tx.wh_dentry = "NULL" <=>
       (d.di_bwh # NoBranch /\ d.di_bwh > tx.bcpup))

\* the phases of a creation call in the order of the code: the parent is
\* locked (line 260) before au_wr_dir() selects the branch (line 155)
C23_Order ==
  <<"Locked", "BranchResolved", "WhiteoutResolved", "NativeOpDone">>

\* the phases in the order of the state machine of the specification
C23_SpecOrder ==
  <<"BranchResolved", "Locked", "WhiteoutResolved", "NativeOpDone">>

\* the sequence is the first k phases of an order, then one end
C23_Run(order, k, end) == tx.ph = SubSeq(order, 1, k) \o <<end>>

\* C23, as amended: a call of add_simple() or aufs_mkdir() goes through
\* its phases in the order Locked, BranchResolved, WhiteoutResolved,
\* NativeOpDone and ends in exactly one of Committed and RolledBack: the
\* parent is locked before the branch is selected, the whiteout is looked
\* up before the creation in the branch, Committed comes only after
\* NativeOpDone, a call ends in RolledBack after any number of these
\* phases (after none when it fails before the parent is locked), and the
\* call returns 0 if and only if it ends in Committed.
C23_PhaseOrder ==
  /\ \E k \in 0..4 : tx.ph = SubSeq(C23_Order, 1, k)
                     \/ (k = 4 /\ C23_Run(C23_Order, 4, "Committed"))
                     \/ C23_Run(C23_Order, k, "RolledBack")
  /\ Done =>
       /\ (tx.ret = "ok" <=> C23_Run(C23_Order, 4, "Committed"))
       /\ (tx.ret # "ok" <=>
             \E k \in 0..4 : C23_Run(C23_Order, k, "RolledBack"))

\* a call that went through all the phases and was rolled back
C23_Witness ==
  /\ Done /\ tx.ret = "ENOMEM"
  /\ C23_Run(C23_Order, 4, "RolledBack")
  /\ h_obj = pre.obj

\* C23, as stated: the phases come in the order BranchResolved, Locked,
\* WhiteoutResolved, NativeOpDone, RolledBack is entered only after
\* Locked, and the call returns 0 if and only if it ends in Committed.
C23_AsStated ==
  Done =>
    /\ (tx.ret = "ok" <=> C23_Run(C23_SpecOrder, 4, "Committed"))
    /\ (tx.ret # "ok" <=>
          \E k \in 2..4 : C23_Run(C23_SpecOrder, k, "RolledBack"))

\* C28: au_plink_maint_leave() checks no owner: whoever calls it, the
\* owner is cleared when its locked part is done and the wait queue is
\* empty when it returns, so after a leave by a task that is not the
\* owner the hold of the owner is gone and an enter by any task succeeds.
C28_Step ==
  \A t \in Tasks :
    /\ (th[t].pc = "idle" /\ th'[t].pc = "lv_wake") =>
         si_plink_maint_pid' = 0
    /\ (th[t].pc = "lv_wake" /\ th'[t].pc = "idle") => si_plink_wq' = {}
    /\ (th[t].pc = "en_cs" /\ th'[t].pc = "en_unlock"
          /\ si_plink_maint_pid = 0) =>
         (th'[t].err = "ok" /\ si_plink_maint_pid' = t)

C28_LeaveChecksNoOwner == [][C28_Step]_vars

\* a task left while another one was the owner, and has then entered
C28_Witness ==
  \E t \in Tasks :
    /\ th[t].prev \notin {0, t}
    /\ th[t].pc = "en_unlock" /\ th[t].err = "ok"
    /\ si_plink_maint_pid = t
    /\ si_plink_wq = {}

\* the failure of au_new_inode() in aufs_tmpfile()
C26_Step ==
  (tx.pc = "t_new_inode" /\ tx'.pc = "t_out_mnt" /\ tx'.err # "ok") =>
    /\ tx.bcpup \notin d'.hd
    /\ d'.di_btop = NoBranch /\ d'.di_bbot = NoBranch
    /\ tx'.h_ref = 0

\* aufs_tmpfile() has returned after vfs_tmpfile() made the object
C26_Case == tx.pc = "t_done" /\ tx.created

\* C26: when aufs_tmpfile() fails at au_new_inode(), after vfs_tmpfile()
\* made the object and the dentry recorded it, the failure takes the
\* object out of the dentry and sets the top and the bottom of the dentry
\* to -1, and on return the dentry has no lower dentry and no range, the
\* references of the object and the write access of the branch are given
\* back and no whiteout was looked up, made or removed; when the call
\* succeeds the top and the bottom are both the selected branch.
C26_TmpfileCleanup ==
  /\ [][C26_Step]_vars
  /\ [](C26_Case =>
         IF tx.ret = "ok"
         THEN /\ d.di_btop = tx.bcpup /\ d.di_bbot = tx.bcpup
              /\ d.hd = {tx.bcpup} /\ tx.h_ref = 1
         ELSE /\ d.hd = {}
              /\ d.di_btop = NoBranch /\ d.di_bbot = NoBranch
              /\ tx.h_ref = 0
              /\ lk.acq["mnt_write"] = 1 /\ lk.rel["mnt_write"] = 1
              /\ h_wh = pre.wh /\ tx.wh_dentry = "NULL"
              /\ tx.undo = <<>>)

\* aufs_tmpfile() failed at au_new_inode() and has returned
C26_Witness ==
  /\ C26_Case /\ tx.ret = "ENOMEM"
  /\ d.hd = {} /\ d.di_btop = NoBranch /\ tx.h_ref = 0

\* a creation in a branch that had a whiteout of the name when the call
\* began
C27_Case == tx.bcpup # NoBranch /\ pre.wh[tx.bcpup]

\* C27: the name stays hidden or taken: when the branch of the creation
\* had a whiteout of the name, then in every state of the call the branch
\* has the whiteout or the object the call made (epilog() removes the
\* whiteout only after the creation succeeded, and puts it back before
\* the caller removes the object), unless au_wh_create() failed to put
\* the whiteout back.
C27_NeverUnshadowed ==
  (C27_Case /\ ~tx.wh_failed) =>
    \/ h_wh[tx.bcpup]
    \/ tx.created /\ h_obj[tx.bcpup] # "none"

\* the whiteout was removed and put back, and the object was removed
C27_Witness ==
  /\ C27_Case /\ Done
  /\ tx.bwh = tx.bcpup /\ h_wh[tx.bcpup]
  /\ tx.created /\ h_obj[tx.bcpup] = "none"

(***************************************************************************)
(* More properties of the table of the pseudo-links (SpecPlink).           *)
(***************************************************************************)
\* do_whplink() returns: the task leaves it for the rest of
\* au_plink_append()
C25_Returns(t) ==
  /\ th[t].pc \in {"ap_whplink"} \cup WpPcs
  /\ th'[t].pc \in {"ap_ret", "ap_del"}

C25_Step ==
  \A t \in Tasks :
    LET ino == th[t].ino
        links == nlink_made'[ino] - nlink_made[ino]
    IN  /\ (th[t].pc = "wp_unlink" /\ th'[t] # th[t]) =>
             /\ th'[t].pc # "wp_unlink"
             /\ th'[t].pc = "wp_link" => plinkdir'[ino] = "none"
        /\ (C25_Returns(t) /\ th'[t].pc = "ap_ret") =>
             /\ plinkdir'[ino] = "self"
             /\ th'[t].ent0 = "self" =>
                  /\ th'[t].lkups = 1 /\ th'[t].unl = 0
                  /\ links = 0 /\ plinkdir[ino] = "self"
             /\ th'[t].ent0 = "none" =>
                  /\ th'[t].lkups = 1 /\ th'[t].unl = 0
                  /\ (links = 1 \/ nlink_made[ino] = 2)
             /\ th'[t].ent0 = "other" =>
                  /\ th'[t].lkups = 2 /\ th'[t].unl = 1
                  /\ (links = 1 \/ nlink_made[ino] = 2)

\* C25: do_whplink() ends after at most two lookups, and when it returns
\* 0 the link farm holds the inode itself under the name of the inode: an
\* entry of another inode was unlinked and the name looked up again, an
\* absent entry was made by one vfsub_link(), and an entry that is the
\* inode already was left alone, with no unlink and no link.
C25_Materializes ==
  /\ [](\A t \in Tasks : th[t].lkups <= 2 /\ th[t].unl <= 1)
  /\ [][C25_Step]_vars

\* a call found the entry of another inode, unlinked it, looked the name
\* up again, linked the inode and returned 0
C25_Witness ==
  \E t \in Tasks :
    /\ th[t].pc = "ap_ret" /\ ~th[t].failed
    /\ th[t].ent0 = "other" /\ th[t].lkups = 2 /\ th[t].unl = 1
    /\ plinkdir[th[t].ino] = "self" /\ nlink_made[th[t].ino] = 1

(***************************************************************************)
(* Properties of the dinfo locks (SpecLocks).                              *)
(***************************************************************************)
\* the dinfo lock a task is waiting for, 0 when it waits for none
C24_Wants(t) ==
  IF cr[t].pc = "lock_child"
  THEN LockOrder(cr[t].dentry, cr[t].type)[1]
  ELSE IF cr[t].pc = "lock_parent"
  THEN LockOrder(cr[t].dentry, cr[t].type)[2]
  ELSE -1

\* the task waits for a lock that a task of the set holds
C24_WaitsIn(t, S) ==
  /\ C24_Wants(t) \in Dentries
  /\ di_rwsem[C24_Wants(t)] \in S

\* some tasks wait for one another for ever
C24_Deadlock ==
  \E S \in SUBSET Tasks : S # {} /\ \A t \in S : C24_WaitsIn(t, S)

\* C24: every creation call takes the dinfo lock of its own dentry (class
\* child) first and that of the parent (class parent) second, and gives
\* them back in the reverse order: a task that holds the lock of the
\* parent of its dentry holds the lock of the dentry; and with this order
\* the calls that run concurrently, on one parent or on several, never
\* wait for one another in a cycle.
C24_OrderAndNoDeadlock ==
  /\ \A t \in Tasks :
       LET e == cr[t].dentry
       IN  /\ (cr[t].pc # "idle" /\ di_rwsem[d_parent(e)] = t) =>
                di_rwsem[e] = t
           /\ cr[t].pc = "lock_parent" => di_rwsem[e] = t
           /\ cr[t].pc = "unlock_child" =>
                (di_rwsem[e] = t /\ di_rwsem[d_parent(e)] # t)
  /\ ~C24_Deadlock

\* two calls contend: a task that holds the lock of its dentry waits for
\* the parent, which another call of that parent, or the creation of the
\* parent itself, holds
C24_Witness ==
  \E t, u \in Tasks :
    /\ t # u
    /\ cr[t].pc = "lock_parent" /\ di_rwsem[cr[t].dentry] = t
    /\ di_rwsem[d_parent(cr[t].dentry)] = u
    /\ cr[u].dentry # cr[t].dentry

=============================================================================
